---------------------------- MODULE Spec2Model ----------------------------
(***************************************************************************)
(* Model of pulldown-cmark-writer: the event-reconstruction engine         *)
(* (src/ast/parse.rs), the tree-to-events emitters (src/ast/block.rs,      *)
(* src/ast/inline.rs), the text primitives (src/text) and the Markdown     *)
(* writer (src/ast/writer).                                                *)
(*                                                                         *)
(* A string is a sequence of one-character strings, a Line a sequence of   *)
(* fragments (strings), a Region a record of main lines and suffix lines.  *)
(* Option values are [some |-> FALSE] and [some |-> TRUE, v |-> x].        *)
(***************************************************************************)
EXTENDS Naturals, Sequences, FiniteSets, TLC

(***************************************************************************)
(* Bounds of the model.                                                    *)
(***************************************************************************)
\* longest event sequence drawn from a vocabulary
MaxLen == 3
\* most times a hook or parser may answer Some in one run
MaxHookHits == 1
\* number of registered block parsers
NumParsers == 2

(***************************************************************************)
(* Generic helpers.                                                        *)
(***************************************************************************)
None == [some |-> FALSE]
Some(x) == [some |-> TRUE, v |-> x]

Last(s) == s[Len(s)]
Front(s) == SubSeq(s, 1, Len(s) - 1)

RECURSIVE Flatten(_)
Flatten(ss) == IF ss = <<>> THEN <<>> ELSE Head(ss) \o Flatten(Tail(ss))

RECURSIVE SeqsUpTo(_, _)
SeqsUpTo(S, n) ==
  IF n = 0 THEN {<<>>}
  ELSE LET shorter == SeqsUpTo(S, n - 1)
       IN  shorter \cup {Append(s, x) : s \in {t \in shorter : Len(t) = n - 1}, x \in S}

NL == "\n"
\* the backtick character (a TLA+ string cannot hold the character itself)
Backtick == "BT"

(***************************************************************************)
(* str::split(ch): the pieces between occurrences of ch; the empty string  *)
(* gives one empty piece.                                                  *)
(***************************************************************************)
RECURSIVE SplitAcc(_, _, _, _)
SplitAcc(s, ch, cur, acc) ==
  IF s = <<>> THEN Append(acc, cur)
  ELSE IF Head(s) = ch THEN SplitAcc(Tail(s), ch, <<>>, Append(acc, cur))
  ELSE SplitAcc(Tail(s), ch, Append(cur, Head(s)), acc)

Split(s, ch) == SplitAcc(s, ch, <<>>, <<>>)

\* str::lines(): split on newline, without the empty piece after a final newline
StrLines(s) ==
  LET parts == Split(s, NL)
  IN  IF Last(parts) = <<>> THEN Front(parts) ELSE parts

RECURSIVE Join(_, _)
Join(parts, sep) ==
  IF parts = <<>> THEN <<>>
  ELSE IF Len(parts) = 1 THEN parts[1]
  ELSE parts[1] \o sep \o Join(Tail(parts), sep)

(***************************************************************************)
(* src/text: Fragment, Line, Region.                                       *)
(***************************************************************************)
FragmentSpaces(n) == [j \in 1..n |-> " "]

LineNew == <<>>
LineFromStr(s) == <<s>>
LinePush(l, f) == Append(l, f)
LinePrepend(l, f) == <<f>> \o l
LineApply(l) == Flatten(l)

RegionNew == [lines |-> <<>>, suffix |-> <<>>]

RegionFromStr(s) ==
  [lines  |-> IF s = <<>> THEN <<>>
              ELSE LET parts == Split(s, NL)
                   IN  [j \in 1..Len(parts) |-> LineFromStr(parts[j])],
   suffix |-> <<>>]

PushFrontLine(r, l) == [r EXCEPT !.lines = <<l>> \o @]
PushBackLine(r, l) == [r EXCEPT !.lines = Append(@, l)]
PushBackSuffixLine(r, l) == [r EXCEPT !.suffix = Append(@, l)]

PrefixEachLine(r, p) ==
  [lines  |-> [j \in 1..Len(r.lines) |-> LinePrepend(r.lines[j], p)],
   suffix |-> [j \in 1..Len(r.suffix) |-> LinePrepend(r.suffix[j], p)]]

IndentEachLine(r, n) ==
  IF n = 0 THEN r ELSE PrefixEachLine(r, FragmentSpaces(n))

\* a variant of prefix_first_then_indent_rest that indents by two spaces whatever
\* the prefix is
PrefixFirstThenIndentTwo(r, p) ==
  LET sp == <<" ", " ">>
      first == IF r.lines # <<>>
               THEN [r EXCEPT !.lines[1] = LinePrepend(@, p)]
               ELSE IF r.suffix # <<>>
               THEN [r EXCEPT !.suffix[1] = LinePrepend(@, p)]
               ELSE r
  IN  [lines  |-> [j \in 1..Len(first.lines) |->
                     IF j = 1 THEN first.lines[j] ELSE LinePrepend(first.lines[j], sp)],
       suffix |-> [j \in 1..Len(first.suffix) |-> LinePrepend(first.suffix[j], sp)]]

PrefixFirstThenIndentRest(r, p) ==
  LET pad == Len(p)
      sp == FragmentSpaces(pad)
      first == IF r.lines # <<>>
               THEN [r EXCEPT !.lines[1] = LinePrepend(@, p)]
               ELSE IF r.suffix # <<>>
               THEN [r EXCEPT !.suffix[1] = LinePrepend(@, p)]
               ELSE r
  IN  IF pad > 0
      THEN [lines  |-> [j \in 1..Len(first.lines) |->
                          IF j = 1 THEN first.lines[j]
                          ELSE LinePrepend(first.lines[j], sp)],
            suffix |-> [j \in 1..Len(first.suffix) |->
                          LinePrepend(first.suffix[j], sp)]]
      ELSE first

\* a variant of into_lines that puts the suffix lines first
RegionIntoLines_SuffixFirst(r) == r.suffix \o r.lines

RegionIntoLines(r) == r.lines \o r.suffix

RegionApply(r) ==
  LET all == r.lines \o r.suffix
  IN  Join([j \in 1..Len(all) |-> LineApply(all[j])], <<NL>>)

RegionIsEmpty(r) == r.lines = <<>> /\ r.suffix = <<>>

(***************************************************************************)
(* src/ast/inline.rs, src/ast/block.rs: the document model.                *)
(***************************************************************************)
InlText(r) == [k |-> "Text", r |-> r]
InlCode(r) == [k |-> "Code", r |-> r]
InlInlineHtml(r) == [k |-> "InlineHtml", r |-> r]
InlHtml(r) == [k |-> "Html", r |-> r]
InlSoftBreak == [k |-> "SoftBreak"]
InlHardBreak == [k |-> "HardBreak"]
InlSpan(kind, children) == [k |-> kind, children |-> children]
InlLink(kind, tag, children) ==
  [k |-> kind, link_type |-> tag.link_type, dest |-> tag.dest_url,
   title |-> tag.title, id |-> tag.id, children |-> children]
InlFootnoteReference(s) == [k |-> "FootnoteReference", s |-> s]
InlInlineMath(r) == [k |-> "InlineMath", r |-> r]
InlDisplayMath(r) == [k |-> "DisplayMath", r |-> r]

BlkParagraph(inls) == [k |-> "Paragraph", inl |-> inls]
BlkHeading(level, id, classes, attrs, children) ==
  [k |-> "Heading", level |-> level, id |-> id, classes |-> classes,
   attrs |-> attrs, children |-> children]
BlkBlockQuote(children) == [k |-> "BlockQuote", children |-> children]
BlkCodeBlock(kind, content) == [k |-> "CodeBlock", kind |-> kind, content |-> content]
BlkHtmlBlock(r) == [k |-> "HtmlBlock", r |-> r]
BlkList(start, items) == [k |-> "List", start |-> start, items |-> items]
BlkItem(children) == [k |-> "Item", children |-> children]
BlkRule == [k |-> "Rule"]
BlkFootnoteDefinition(label, children) ==
  [k |-> "FootnoteDefinition", label |-> label, children |-> children]
BlkTableRow(cells) == [k |-> "TableRow", cells |-> cells]
BlkTableFull(aligns, rows) == [k |-> "TableFull", aligns |-> aligns, rows |-> rows]
BlkCustom(name) == [k |-> "Custom", name |-> name]

(***************************************************************************)
(* The event vocabulary of the tokenizer (pulldown_cmark::Event, Tag,      *)
(* TagEnd).                                                                *)
(***************************************************************************)
EvStart(tag) == [k |-> "Start", tag |-> tag]
EvEnd(tagend) == [k |-> "End", tagend |-> tagend]
EvText(s) == [k |-> "Text", s |-> s]
EvCode(s) == [k |-> "Code", s |-> s]
EvInlineHtml(s) == [k |-> "InlineHtml", s |-> s]
EvHtml(s) == [k |-> "Html", s |-> s]
EvSoftBreak == [k |-> "SoftBreak"]
EvHardBreak == [k |-> "HardBreak"]
EvRule == [k |-> "Rule"]
EvTaskListMarker(b) == [k |-> "TaskListMarker", b |-> b]
EvFootnoteReference(s) == [k |-> "FootnoteReference", s |-> s]
EvInlineMath(s) == [k |-> "InlineMath", s |-> s]
EvDisplayMath(s) == [k |-> "DisplayMath", s |-> s]

TagPlain(t) == [t |-> t]
TagHeading(level, id, classes, attrs) ==
  [t |-> "Heading", level |-> level, id |-> id, classes |-> classes, attrs |-> attrs]
TagBlockQuote(kind) == [t |-> "BlockQuote", kind |-> kind]
TagCodeBlock(kind) == [t |-> "CodeBlock", kind |-> kind]
TagList(start) == [t |-> "List", start |-> start]
TagFootnoteDefinition(label) == [t |-> "FootnoteDefinition", label |-> label]
TagTable(aligns) == [t |-> "Table", aligns |-> aligns]
TagLink(kind, link_type, dest, title, id) ==
  [t |-> kind, link_type |-> link_type, dest_url |-> dest, title |-> title, id |-> id]

Fenced(lang) == [c |-> "Fenced", lang |-> lang]
Indented == [c |-> "Indented"]

(***************************************************************************)
(* src/ast/parse.rs: parse_events_to_blocks_with_hook.                     *)
(***************************************************************************)
SpanTags == {"Emphasis", "Strong", "Strikethrough", "Subscript", "Superscript"}

\* the `matches!` of the Start arm
CollectsInlines(tag) ==
  tag.t \in {"Paragraph", "Heading", "Emphasis", "Strong", "Strikethrough",
             "Subscript", "Superscript", "Link", "Image", "TableCell"}

NewFrame(tag) ==
  [tag |-> tag, inlines |-> <<>>, blocks |-> <<>>, collect_inlines |-> CollectsInlines(tag)]

\* the text of the Text inlines of a sequence of inlines, in order
TextsOf(inls) ==
  LET texts == SelectSeq(inls, LAMBDA x : x.k = "Text")
  IN  [j \in 1..Len(texts) |-> RegionApply(texts[j].r)]

\* CodeBlock arm: the Text inlines of the Paragraph children, concatenated
CodeBlockContent(blocks) ==
  LET paras == SelectSeq(blocks, LAMBDA b : b.k = "Paragraph")
  IN  RegionFromStr(Flatten(Flatten([j \in 1..Len(paras) |-> TextsOf(paras[j].inl)])))

SplitLines(s) ==
  LET parts == Split(s, NL)
  IN  [j \in 1..Len(parts) |-> LineFromStr(parts[j])]

\* HtmlBlock arm: one line per line of the collected Html and Text content
HtmlBlockContent(frame) ==
  LET fromBlock(b) ==
        IF b.k = "HtmlBlock" THEN SplitLines(RegionApply(b.r))
        ELSE IF b.k = "Paragraph"
        THEN LET ts == TextsOf(b.inl) IN [j \in 1..Len(ts) |-> LineFromStr(ts[j])]
        ELSE <<>>
      fromInline(x) ==
        IF x.k = "Text" THEN <<LineFromStr(RegionApply(x.r))>>
        ELSE IF x.k = "Html" THEN SplitLines(RegionApply(x.r))
        ELSE <<>>
  IN  [lines  |-> Flatten([j \in 1..Len(frame.blocks) |-> fromBlock(frame.blocks[j])])
                  \o Flatten([j \in 1..Len(frame.inlines) |-> fromInline(frame.inlines[j])]),
       suffix |-> <<>>]

\* List arm: an Item child gives its blocks, any other child a singleton item
\* a variant of the List arm that leaves the Item nodes among the items
ListItems_ItemsLeftWrapped(blocks) == [j \in 1..Len(blocks) |-> <<blocks[j]>>]

ListItems(blocks) ==
  [j \in 1..Len(blocks) |->
     IF blocks[j].k = "Item" THEN blocks[j].children ELSE <<blocks[j]>>]

\* Table arm: TableRow and Paragraph children are rows, an Item child is flattened
TableRows(blocks) ==
  LET paraInls(children) ==
        LET ps == SelectSeq(children, LAMBDA c : c.k = "Paragraph")
        IN  Flatten([j \in 1..Len(ps) |-> ps[j].inl])
      rowOf(b) ==
        IF b.k = "TableRow" THEN <<b.cells>>
        ELSE IF b.k = "Paragraph" THEN << <<b.inl>> >>
        ELSE IF b.k = "Item" THEN << <<paraInls(b.children)>> >>
        ELSE <<>>
  IN  Flatten([j \in 1..Len(blocks) |-> rowOf(blocks[j])])

\* a variant of the TableHead | TableRow arm that skips the empty cells
RowCells_EmptyCellsSkipped(blocks) ==
  LET ps == SelectSeq(blocks, LAMBDA b : b.k = "Paragraph" /\ b.inl # <<>>)
  IN  [j \in 1..Len(ps) |-> ps[j].inl]

\* TableHead | TableRow arm: the Paragraph children are the cells
RowCells(blocks) ==
  LET ps == SelectSeq(blocks, LAMBDA b : b.k = "Paragraph")
  IN  [j \in 1..Len(ps) |-> ps[j].inl]

\* the `match frame.tag` of the End arm: the node, and the inline for a span tag
FrameToNode(frame) ==
  LET tag == frame.tag
      block(b) == [inline |-> None, node |-> b]
      span(x) == [inline |-> Some(x), node |-> BlkParagraph(<<>>)]
  IN  CASE tag.t = "Paragraph" -> block(BlkParagraph(frame.inlines))
        [] tag.t = "Heading" ->
             block(BlkHeading(tag.level, tag.id, tag.classes, tag.attrs, frame.inlines))
        [] tag.t = "BlockQuote" -> block(BlkBlockQuote(frame.blocks))
        [] tag.t = "CodeBlock" -> block(BlkCodeBlock(tag.kind, CodeBlockContent(frame.blocks)))
        [] tag.t = "HtmlBlock" -> block(BlkHtmlBlock(HtmlBlockContent(frame)))
        [] tag.t = "List" -> block(BlkList(tag.start, ListItems(frame.blocks)))
        [] tag.t = "Item" -> block(BlkItem(frame.blocks))
        [] tag.t = "FootnoteDefinition" ->
             block(BlkFootnoteDefinition(tag.label, frame.blocks))
        [] tag.t = "Table" -> block(BlkTableFull(tag.aligns, TableRows(frame.blocks)))
        [] tag.t \in {"TableHead", "TableRow"} -> block(BlkTableRow(RowCells(frame.blocks)))
        [] tag.t = "TableCell" -> block(BlkParagraph(frame.inlines))
        [] tag.t \in SpanTags -> span(InlSpan(tag.t, frame.inlines))
        [] tag.t \in {"Link", "Image"} -> span(InlLink(tag.t, tag, frame.inlines))
        [] OTHER -> block(BlkParagraph(frame.inlines))

\* the parser's working state: the frame stack and the root sequence
PState(stack, out) == [stack |-> stack, out |-> out]

WithTop(stack, top) == [stack EXCEPT ![Len(stack)] = top]

\* a variant of the attachment in which a span closed with no Paragraph to join
\* leaves its placeholder node beside the inline
AttachClosed_SpanLeavesPlaceholder(res, rest, out) ==
  IF rest # <<>>
  THEN LET parent == Last(rest)
       IN  IF res.inline.some
           THEN IF parent.collect_inlines
                THEN PState(WithTop(rest, [parent EXCEPT !.inlines = Append(@, res.inline.v)]), out)
                ELSE IF parent.blocks # <<>> /\ Last(parent.blocks).k = "Paragraph"
                THEN PState(WithTop(rest,
                       [parent EXCEPT !.blocks[Len(parent.blocks)].inl = Append(@, res.inline.v)]),
                       out)
                ELSE PState(WithTop(rest,
                       [parent EXCEPT !.blocks = @ \o <<res.node, BlkParagraph(<<res.inline.v>>)>>]),
                       out)
           ELSE IF parent.collect_inlines
                THEN IF res.node.k = "Paragraph"
                     THEN PState(WithTop(rest, [parent EXCEPT !.inlines = @ \o res.node.inl]), out)
                     ELSE PState(WithTop(rest, [parent EXCEPT !.blocks = Append(@, res.node)]), out)
                ELSE PState(WithTop(rest, [parent EXCEPT !.blocks = Append(@, res.node)]), out)
  ELSE IF res.inline.some
       THEN PState(rest, out \o <<res.node, BlkParagraph(<<res.inline.v>>)>>)
       ELSE PState(rest, Append(out, res.node))

\* the attachment of a closed frame's result to its parent or to the root
AttachClosed(res, rest, out) ==
  IF rest # <<>>
  THEN LET parent == Last(rest)
       IN  IF res.inline.some
           THEN IF parent.collect_inlines
                THEN PState(WithTop(rest, [parent EXCEPT !.inlines = Append(@, res.inline.v)]), out)
                ELSE IF parent.blocks # <<>> /\ Last(parent.blocks).k = "Paragraph"
                THEN PState(WithTop(rest,
                       [parent EXCEPT !.blocks[Len(parent.blocks)].inl = Append(@, res.inline.v)]),
                       out)
                ELSE PState(WithTop(rest,
                       [parent EXCEPT !.blocks = Append(@, BlkParagraph(<<res.inline.v>>))]), out)
           ELSE IF parent.collect_inlines
                THEN IF res.node.k = "Paragraph"
                     THEN PState(WithTop(rest, [parent EXCEPT !.inlines = @ \o res.node.inl]), out)
                     ELSE PState(WithTop(rest, [parent EXCEPT !.blocks = Append(@, res.node)]), out)
                ELSE PState(WithTop(rest, [parent EXCEPT !.blocks = Append(@, res.node)]), out)
  ELSE IF res.inline.some
       THEN PState(rest, Append(out, BlkParagraph(<<res.inline.v>>)))
       ELSE PState(rest, Append(out, res.node))

\* Event::Start arm
OnStart(ev, stack, out) == PState(Append(stack, NewFrame(ev.tag)), out)

\* a variant of the End arm in which an End with no open frame yields an empty Paragraph
OnEnd_StrayEndPushesParagraph(ev, stack, out) ==
  IF stack # <<>>
  THEN AttachClosed(FrameToNode(Last(stack)), Front(stack), out)
  ELSE PState(stack, Append(out, BlkParagraph(<<>>)))

\* a variant of the End arm that closes a frame only on an End of its own kind
OnEnd_MismatchedEndIgnored(ev, stack, out) ==
  IF stack # <<>> /\ ev.tagend.t = Last(stack).tag.t
  THEN AttachClosed(FrameToNode(Last(stack)), Front(stack), out)
  ELSE PState(stack, out)

\* Event::End arm
OnEnd(ev, stack, out) ==
  IF stack # <<>>
  THEN AttachClosed(FrameToNode(Last(stack)), Front(stack), out)
  ELSE PState(stack, out)

\* a leaf arm that looks at the frame's collect_inlines flag
PushByFlag(inl, blk, stack, out) ==
  IF stack # <<>>
  THEN LET top == Last(stack)
       IN  IF top.collect_inlines
           THEN PState(WithTop(stack, [top EXCEPT !.inlines = Append(@, inl)]), out)
           ELSE PState(WithTop(stack, [top EXCEPT !.blocks = Append(@, blk)]), out)
  ELSE PState(stack, Append(out, blk))

\* a leaf arm that pushes to the frame's inline buffer whatever the flag is
PushInline(inl, stack, out) ==
  IF stack # <<>>
  THEN PState(WithTop(stack, [Last(stack) EXCEPT !.inlines = Append(@, inl)]), out)
  ELSE PState(stack, Append(out, BlkParagraph(<<inl>>)))

\* Event::Rule arm
PushRule(stack, out) ==
  IF stack # <<>>
  THEN PState(WithTop(stack, [Last(stack) EXCEPT !.blocks = Append(@, BlkRule)]), out)
  ELSE PState(stack, Append(out, BlkRule))

TaskMarkerText(b) == IF b THEN <<"[", "x", "]">> ELSE <<"[", " ", "]">>

LeafKinds ==
  {"Text", "Code", "InlineHtml", "Html", "SoftBreak", "HardBreak", "Rule",
   "TaskListMarker", "FootnoteReference", "InlineMath", "DisplayMath"}

\* the arms of the leaf events
OnLeaf(ev, stack, out) ==
  CASE ev.k = "Text" ->
         LET x == InlText(RegionFromStr(ev.s)) IN PushByFlag(x, BlkParagraph(<<x>>), stack, out)
    [] ev.k = "Code" ->
         LET x == InlCode(RegionFromStr(ev.s)) IN PushByFlag(x, BlkParagraph(<<x>>), stack, out)
    [] ev.k = "InlineHtml" -> PushInline(InlInlineHtml(RegionFromStr(ev.s)), stack, out)
    [] ev.k = "Html" ->
         LET r == RegionFromStr(ev.s) IN PushByFlag(InlHtml(r), BlkHtmlBlock(r), stack, out)
    [] ev.k = "SoftBreak" -> PushByFlag(InlSoftBreak, BlkParagraph(<<InlSoftBreak>>), stack, out)
    [] ev.k = "HardBreak" -> PushByFlag(InlHardBreak, BlkParagraph(<<InlHardBreak>>), stack, out)
    [] ev.k = "Rule" -> PushRule(stack, out)
    [] ev.k = "TaskListMarker" ->
         PushInline(InlText(RegionFromStr(TaskMarkerText(ev.b))), stack, out)
    [] ev.k = "FootnoteReference" -> PushInline(InlFootnoteReference(ev.s), stack, out)
    [] ev.k = "InlineMath" -> PushInline(InlInlineMath(RegionFromStr(ev.s)), stack, out)
    [] ev.k = "DisplayMath" -> PushInline(InlDisplayMath(RegionFromStr(ev.s)), stack, out)

\* the `match ev` of one loop iteration
Structural(ev, stack, out) ==
  CASE ev.k = "Start" -> OnStart(ev, stack, out)
    [] ev.k = "End" -> OnEnd(ev, stack, out)
    [] OTHER -> OnLeaf(ev, stack, out)

\* the ParseContext built at the top of each iteration
BuildContext(stack, i) ==
  [depth |-> Len(stack),
   parent_tag |-> IF stack = <<>> THEN None ELSE Some(Last(stack).tag),
   parent_collects_inlines |-> IF stack = <<>> THEN FALSE ELSE Last(stack).collect_inlines,
   event_index |-> i]

\* usize::saturating_add
\* (usize::MAX, scaled to the 31-bit integers of TLC)
UsizeMax == 2147483647
SaturatingAdd(a, b) == IF b > UsizeMax - a THEN UsizeMax ELSE a + b

\* events[i..] for a 0-based i
SliceFrom(evs, i) == SubSeq(evs, i + 1, Len(evs))

(***************************************************************************)
(* src/ast/custom.rs: the custom nodes of the model. A custom node is      *)
(* named; the node of a hook or parser is the FigureBlock of the examples  *)
(* (one Html event), "NoBlock" and "NoInline" are the default markers, and *)
(* a custom inline is the MyInline of tests/custom_nodes.rs.               *)
(***************************************************************************)
CustomPayload == <<"f">>

InlCustom(name) == [k |-> "Custom", name |-> name]

BlockNodeToEvents(name) ==
  IF name[1] = "NoBlock" THEN <<>> ELSE <<EvHtml(CustomPayload)>>

InlineNodeToEvents(name) ==
  IF name[1] = "NoInline" THEN <<>>
  ELSE <<EvStart(TagPlain("Emphasis")), EvText(CustomPayload), EvEnd(TagPlain("Emphasis"))>>

\* BlockNode::to_region: the direct rendering the node supplies (a figure
\* renders as an image line; NoBlock as the empty region)
BlockNodeToRegion(name) ==
  IF name[1] = "NoBlock" THEN RegionNew
  ELSE PushBackLine(RegionNew, LineFromStr(<<"!", "[", "]", "(">> \o CustomPayload \o <<")">>))

\* InlineNode::to_line: the direct rendering the node supplies
InlineNodeToLine(name) ==
  IF name[1] = "NoInline" THEN LineNew
  ELSE LineFromStr(<<"_">> \o CustomPayload \o <<"_">>)

(***************************************************************************)
(* src/ast/inline.rs: inline_to_events; src/ast/block.rs: block_to_events. *)
(***************************************************************************)
TagEndHeading(level) == [t |-> "Heading", level |-> level]
TagEndBlockQuote(kind) == [t |-> "BlockQuote", kind |-> kind]
TagEndList(ordered) == [t |-> "List", ordered |-> ordered]

\* Inline::Text: one Text event per line, a SoftBreak between two lines
TextToEvents(s) ==
  LET parts == Split(s, NL)
  IN  Flatten([j \in 1..Len(parts) |->
                 IF j < Len(parts) THEN <<EvText(parts[j]), EvSoftBreak>>
                 ELSE <<EvText(parts[j])>>])

RECURSIVE InlineToEvents(_)
InlinesToEvents(inls) == Flatten([j \in 1..Len(inls) |-> InlineToEvents(inls[j])])

InlineToEvents(inl) ==
  CASE inl.k = "Text" -> TextToEvents(RegionApply(inl.r))
    [] inl.k = "Code" -> <<EvCode(RegionApply(inl.r))>>
    [] inl.k = "InlineHtml" -> <<EvInlineHtml(RegionApply(inl.r))>>
    [] inl.k = "Html" -> <<EvHtml(RegionApply(inl.r))>>
    [] inl.k = "SoftBreak" -> <<EvSoftBreak>>
    [] inl.k = "HardBreak" -> <<EvHardBreak>>
    [] inl.k \in SpanTags ->
         <<EvStart(TagPlain(inl.k))>> \o InlinesToEvents(inl.children)
           \o <<EvEnd(TagPlain(inl.k))>>
    [] inl.k \in {"Link", "Image"} ->
         <<EvStart(TagLink(inl.k, inl.link_type, inl.dest, inl.title, inl.id))>>
           \o InlinesToEvents(inl.children) \o <<EvEnd(TagPlain(inl.k))>>
    [] inl.k = "FootnoteReference" -> <<EvFootnoteReference(inl.s)>>
    [] inl.k = "InlineMath" -> <<EvInlineMath(RegionApply(inl.r))>>
    [] inl.k = "DisplayMath" -> <<EvDisplayMath(RegionApply(inl.r))>>
    [] inl.k = "Custom" -> InlineNodeToEvents(inl.name)

RECURSIVE BlockToEvents(_)
BlocksToEvents(blocks) == Flatten([j \in 1..Len(blocks) |-> BlockToEvents(blocks[j])])

BlockToEvents(b) ==
  CASE b.k = "Paragraph" ->
         <<EvStart(TagPlain("Paragraph"))>> \o InlinesToEvents(b.inl)
           \o <<EvEnd(TagPlain("Paragraph"))>>
    [] b.k = "Heading" ->
         <<EvStart(TagHeading(b.level, b.id, <<>>, <<>>))>> \o InlinesToEvents(b.children)
           \o <<EvEnd(TagEndHeading(b.level))>>
    [] b.k = "BlockQuote" ->
         <<EvStart(TagBlockQuote(None))>> \o BlocksToEvents(b.children)
           \o <<EvEnd(TagEndBlockQuote(None))>>
    [] b.k = "CodeBlock" ->
         <<EvStart(TagCodeBlock(b.kind)), EvText(RegionApply(b.content)),
           EvEnd(TagPlain("CodeBlock"))>>
    [] b.k = "HtmlBlock" -> <<EvHtml(RegionApply(b.r))>>
    [] b.k = "List" ->
         <<EvStart(TagList(b.start))>>
           \o Flatten([j \in 1..Len(b.items) |->
                         <<EvStart(TagPlain("Item"))>> \o BlocksToEvents(b.items[j])
                           \o <<EvEnd(TagPlain("Item"))>>])
           \o <<EvEnd(TagEndList(b.start.some))>>
    [] b.k = "Item" ->
         <<EvStart(TagPlain("Item"))>> \o BlocksToEvents(b.children)
           \o <<EvEnd(TagPlain("Item"))>>
    [] b.k = "Rule" -> <<EvRule>>
    [] b.k = "FootnoteDefinition" ->
         <<EvStart(TagFootnoteDefinition(b.label))>> \o BlocksToEvents(b.children)
           \o <<EvEnd(TagPlain("FootnoteDefinition"))>>
    [] b.k \in {"Table", "TableRow", "TableFull"} -> <<>>
    [] b.k = "Custom" -> BlockNodeToEvents(b.name)

(***************************************************************************)
(* tests/events_roundtrip.rs: the canonical form of an event sequence.     *)
(***************************************************************************)
\* str::trim().is_empty()
IsBlank(line) == \A j \in 1..Len(line) : line[j] \in {" ", "\t"}

\* the text of a code block with every run of blank lines collapsed
RECURSIVE CollapseAcc(_, _, _)
CollapseAcc(lines, res, lastEmpty) ==
  IF lines = <<>> THEN res
  ELSE LET line == Head(lines)
       IN  IF IsBlank(line)
           THEN IF ~lastEmpty
                THEN CollapseAcc(Tail(lines), IF res # <<>> THEN Append(res, NL) ELSE res, TRUE)
                ELSE CollapseAcc(Tail(lines), res, TRUE)
           ELSE CollapseAcc(Tail(lines),
                            (IF res # <<>> THEN Append(res, NL) ELSE res) \o line, FALSE)

EndsWithNL(s) == s # <<>> /\ Last(s) = NL

CollapseBlankLines(txt) ==
  LET res == CollapseAcc(Split(txt, NL), <<>>, FALSE)
  IN  IF EndsWithNL(txt) /\ ~EndsWithNL(res) THEN Append(res, NL) ELSE res

RECURSIVE NormalizeAcc(_, _, _)
NormalizeAcc(evs, acc, inCode) ==
  IF evs = <<>> THEN acc
  ELSE LET ev == Head(evs)
       IN  IF ev.k = "Start" /\ ev.tag.t = "CodeBlock"
           THEN NormalizeAcc(Tail(evs), Append(acc, ev), TRUE)
           ELSE IF ev.k = "End" /\ ev.tagend.t = "CodeBlock"
           THEN NormalizeAcc(Tail(evs), Append(acc, ev), FALSE)
           ELSE IF ev.k = "Text"
           THEN LET txt == IF inCode THEN CollapseBlankLines(ev.s) ELSE ev.s
                IN  IF acc # <<>> /\ Last(acc).k = "Text"
                    THEN NormalizeAcc(Tail(evs),
                           [acc EXCEPT ![Len(acc)] = EvText(Last(acc).s \o txt)], inCode)
                    ELSE NormalizeAcc(Tail(evs), Append(acc, EvText(txt)), inCode)
           ELSE NormalizeAcc(Tail(evs), Append(acc, ev), inCode)

NormalizeEvents(evs) == NormalizeAcc(evs, <<>>, FALSE)

FilterParagraphEvents(evs) ==
  SelectSeq(evs, LAMBDA ev :
    ~(\/ (ev.k = "Start" /\ ev.tag.t = "Paragraph")
      \/ (ev.k = "End" /\ ev.tagend.t = "Paragraph")))

\* the tokens of canonicalize_events: a token stands for the string the test
\* formats; a Code event is the Text token of its backticked text
RECURSIVE CanonAcc(_, _, _)
CanonAcc(evs, out_, acc) ==
  LET flushed == IF acc.some THEN Append(out_, EvText(acc.v)) ELSE out_
  IN  IF evs = <<>> THEN flushed
      ELSE LET ev == Head(evs)
           IN  IF ev.k = "Text"
               THEN CanonAcc(Tail(evs), out_, Some((IF acc.some THEN acc.v ELSE <<>>) \o ev.s))
               ELSE IF ev.k = "Code"
               THEN CanonAcc(Tail(evs), Append(flushed, EvText(<<Backtick>> \o ev.s \o <<Backtick>>)), None)
               ELSE CanonAcc(Tail(evs), Append(flushed, ev), None)

CanonicalizeEvents(evs) == CanonAcc(evs, <<>>, None)

\* the canonical sequence the test compares
Canon(evs) == CanonicalizeEvents(FilterParagraphEvents(NormalizeEvents(evs)))

(***************************************************************************)
(* src/ast/writer/inline.rs: append_inline_to_line.                        *)
(***************************************************************************)
Contains(s, ch) == \E j \in 1..Len(s) : s[j] = ch

\* str::replace of one character by a string
ReplaceChar(s, ch, rep) ==
  Flatten([j \in 1..Len(s) |-> IF s[j] = ch THEN rep ELSE <<s[j]>>])

BackSlash == "\\"
DQuote == "\""

SafeDest(dest) ==
  ReplaceChar(ReplaceChar(ReplaceChar(dest, BackSlash, <<BackSlash, BackSlash>>),
                          ")", <<BackSlash, ")">>),
              "(", <<BackSlash, "(">>)

SafeTitle(title) ==
  ReplaceChar(ReplaceChar(title, BackSlash, <<BackSlash, BackSlash>>),
              DQuote, <<BackSlash, DQuote>>)

\* the code span of `s`: two backticks around it if it holds one, else one
CodeSpan(s) ==
  LET ticks == IF Contains(s, Backtick) THEN <<Backtick, Backtick>> ELSE <<Backtick>>
  IN  ticks \o s \o ticks

\* the pushes of Inline::Text: the lines of the text, a "\n" fragment between them
TextFragments(s) ==
  LET parts == Split(s, NL)
  IN  Flatten([j \in 1..Len(parts) |->
                 IF j > 1 THEN << <<NL>>, parts[j] >> ELSE <<parts[j]>>])

SpanOpen(kind) ==
  CASE kind = "Emphasis" -> <<"*">>
    [] kind = "Strong" -> <<"*", "*">>
    [] kind = "Strikethrough" -> <<"~", "~">>
    [] kind = "Subscript" -> <<"~", "{">>
    [] kind = "Superscript" -> <<"^", "{">>

SpanClose(kind) ==
  CASE kind = "Emphasis" -> <<"*">>
    [] kind = "Strong" -> <<"*", "*">>
    [] kind = "Strikethrough" -> <<"~", "~">>
    [] kind = "Subscript" -> <<"}">>
    [] kind = "Superscript" -> <<"}">>

\* the flattening of an Inline::Custom: its events pushed as text, with a
\* stack of the open links and images
RECURSIVE CustomInlineAcc(_, _, _)
CustomInlineAcc(evs, line, linkStack) ==
  IF evs = <<>> THEN line
  ELSE LET ev == Head(evs)
           rest == Tail(evs)
           closing(top) ==
             IF top.title = <<>> THEN <<"]", "(">> \o top.dest \o <<")">>
             ELSE <<"]", "(">> \o top.dest \o <<" ", DQuote>>
                    \o ReplaceChar(top.title, DQuote, <<BackSlash, DQuote>>) \o <<DQuote, ")">>
       IN  CASE ev.k = "Text" -> CustomInlineAcc(rest, LinePush(line, ev.s), linkStack)
             [] ev.k \in {"InlineHtml", "Html"} ->
                  CustomInlineAcc(rest, LinePush(line, ev.s), linkStack)
             [] ev.k = "Code" -> CustomInlineAcc(rest, LinePush(line, CodeSpan(ev.s)), linkStack)
             [] ev.k = "SoftBreak" -> CustomInlineAcc(rest, LinePush(line, <<" ">>), linkStack)
             [] ev.k = "HardBreak" ->
                  CustomInlineAcc(rest, LinePush(line, <<" ", " ", NL>>), linkStack)
             [] ev.k = "Start" ->
                  IF ev.tag.t \in SpanTags
                  THEN CustomInlineAcc(rest, LinePush(line, SpanOpen(ev.tag.t)), linkStack)
                  ELSE IF ev.tag.t = "Link"
                  THEN CustomInlineAcc(rest, LinePush(line, <<"[">>),
                         Append(linkStack, [is_image |-> FALSE, dest |-> ev.tag.dest_url,
                                            title |-> ev.tag.title]))
                  ELSE IF ev.tag.t = "Image"
                  THEN CustomInlineAcc(rest, LinePush(line, <<"!", "[">>),
                         Append(linkStack, [is_image |-> TRUE, dest |-> ev.tag.dest_url,
                                            title |-> ev.tag.title]))
                  ELSE CustomInlineAcc(rest, line, linkStack)
             [] ev.k = "End" ->
                  IF ev.tagend.t \in SpanTags
                  THEN CustomInlineAcc(rest, LinePush(line, SpanClose(ev.tagend.t)), linkStack)
                  ELSE IF ev.tagend.t = "Link"
                  THEN IF linkStack # <<>>
                       THEN CustomInlineAcc(rest, LinePush(line, closing(Last(linkStack))),
                                            Front(linkStack))
                       ELSE CustomInlineAcc(rest, line, linkStack)
                  ELSE IF ev.tagend.t = "Image"
                  THEN IF linkStack # <<>>
                       THEN CustomInlineAcc(rest,
                              IF Last(linkStack).is_image
                              THEN LinePush(line, closing(Last(linkStack))) ELSE line,
                              Front(linkStack))
                       ELSE CustomInlineAcc(rest, line, linkStack)
                  ELSE CustomInlineAcc(rest, line, linkStack)
             [] OTHER -> CustomInlineAcc(rest, line, linkStack)

\* the result of append_inline_to_line: the line, and the reference
\* definition (id, dest, title) the call returns, if any
Appended(line, def) == [line |-> line, def |-> def]

RefDef(inl) == Some([id |-> inl.id, dest |-> inl.dest, title |-> inl.title])

RECURSIVE AppendInlineToLine(_, _), AppendChildren(_, _)
\* `for c in children { append_inline_to_line(line, c); }`: the result is dropped
AppendChildren(line, children) ==
  IF children = <<>> THEN line
  ELSE AppendChildren(AppendInlineToLine(line, Head(children)).line, Tail(children))

\* the text of a link: each child rendered into a line of its own
LinkInner(children) ==
  Flatten([j \in 1..Len(children) |->
             LineApply(AppendInlineToLine(LineNew, children[j]).line)])

AppendInlineToLine(line, inl) ==
  CASE inl.k = "Text" -> Appended(line \o TextFragments(RegionApply(inl.r)), None)
    [] inl.k = "Code" -> Appended(LinePush(line, CodeSpan(RegionApply(inl.r))), None)
    [] inl.k \in {"InlineHtml", "Html"} -> Appended(LinePush(line, RegionApply(inl.r)), None)
    [] inl.k = "SoftBreak" -> Appended(LinePush(line, <<" ">>), None)
    [] inl.k = "HardBreak" -> Appended(LinePush(line, <<" ", " ", NL>>), None)
    [] inl.k \in SpanTags ->
         Appended(LinePush(AppendChildren(LinePush(line, SpanOpen(inl.k)), inl.children),
                           SpanClose(inl.k)), None)
    [] inl.k = "Link" ->
         LET inner == LinkInner(inl.children)
         IN  IF inl.link_type = "Reference" /\ inl.id # <<>>
             THEN Appended(LinePush(line, <<"[">> \o inner \o <<"]", "[">> \o inl.id \o <<"]">>),
                           RefDef(inl))
             ELSE IF inl.link_type \in {"Autolink", "Email"}
             THEN Appended(LinePush(line, <<"<">> \o inl.dest \o <<">">>), None)
             ELSE IF inl.link_type \in {"Shortcut", "Collapsed"} /\ inl.id # <<>>
             THEN Appended(LinePush(line, <<"[">> \o inner \o <<"]">>), RefDef(inl))
             ELSE IF inl.title = <<>>
             THEN Appended(LinePush(line, <<"[">> \o inner \o <<"]", "(">>
                                            \o SafeDest(inl.dest) \o <<")">>), None)
             ELSE Appended(LinePush(line, <<"[">> \o inner \o <<"]", "(">>
                                            \o SafeDest(inl.dest) \o <<" ", DQuote>>
                                            \o SafeTitle(inl.title) \o <<DQuote, ")">>), None)
    [] inl.k = "Image" ->
         LET inner == LinkInner(inl.children)
         IN  IF inl.link_type = "Reference" /\ inl.id # <<>>
             THEN Appended(LinePush(line, <<"!", "[">> \o inner \o <<"]", "[">> \o inl.id
                                            \o <<"]">>), RefDef(inl))
             ELSE IF inl.link_type \in {"Shortcut", "Collapsed"} /\ inl.id # <<>>
             THEN Appended(LinePush(line, <<"!", "[">> \o inner \o <<"]">>), RefDef(inl))
             ELSE IF inl.title = <<>>
             THEN Appended(LinePush(line, <<"!", "[">> \o inner \o <<"]", "(">>
                                            \o inl.dest \o <<")">>), None)
             ELSE Appended(LinePush(line, <<"!", "[">> \o inner \o <<"]", "(">>
                                            \o inl.dest \o <<" ", DQuote>>
                                            \o inl.title \o <<DQuote, ")">>), None)
    [] inl.k = "FootnoteReference" ->
         Appended(LinePush(line, <<"[", "^">> \o inl.s \o <<"]">>), None)
    [] inl.k = "InlineMath" ->
         Appended(LinePush(line, <<"$">> \o RegionApply(inl.r) \o <<"$">>), None)
    [] inl.k = "DisplayMath" ->
         Appended(line \o << <<NL, "$", "$", NL>>, RegionApply(inl.r), <<NL, "$", "$", NL>> >>,
                  None)
    [] inl.k = "Custom" ->
         Appended(CustomInlineAcc(InlineNodeToEvents(inl.name), line, <<>>), None)

(***************************************************************************)
(* src/ast/writer/utils.rs and src/ast/writer/blocks.rs.                   *)
(***************************************************************************)
Max(a, b) == IF a > b THEN a ELSE b

Repeat(ch, n) == [j \in 1..n |-> ch]

\* usize::saturating_sub
SaturatingSub(a, b) == IF a > b THEN a - b ELSE 0

\* a character two columns wide (an East Asian wide character)
Wide == "WIDE"

\* UnicodeWidthStr::width
RECURSIVE Width(_)
Width(s) == IF s = <<>> THEN 0 ELSE (IF Head(s) = Wide THEN 2 ELSE 1) + Width(Tail(s))

DigitChars == <<"0", "1", "2", "3", "4", "5", "6", "7", "8", "9">>

\* format!("{}", n) of an unsigned integer
RECURSIVE Decimal(_)
Decimal(n) ==
  IF n < 10 THEN <<DigitChars[n + 1]>>
  ELSE Decimal(n \div 10) \o <<DigitChars[(n % 10) + 1]>>

\* align is Option<&Alignment>: None, or Some of "None", "Left", "Right", "Center"
PadToWidth(s, width, align) ==
  LET w == Width(s)
      pad == width - w
      left == pad \div 2
  IN  IF width <= w THEN s
      ELSE IF align.some /\ align.v = "Right" THEN Repeat(" ", pad) \o s
      ELSE IF align.some /\ align.v = "Center"
      THEN Repeat(" ", left) \o s \o Repeat(" ", pad - left)
      ELSE s \o Repeat(" ", pad)

DefLine(def) ==
  IF def.title = <<>>
  THEN LineFromStr(<<"[">> \o def.id \o <<"]", ":", " ">> \o def.dest)
  ELSE LineFromStr(<<"[">> \o def.id \o <<"]", ":", " ">> \o def.dest
                     \o <<" ", DQuote>> \o def.title \o <<DQuote>>)

\* the inner loop of render_paragraph over the pieces of one rendered inline
RECURSIVE PartsAcc(_, _, _)
PartsAcc(parts, r, curr) ==
  LET part == Head(parts)
      c1 == IF part # <<>> THEN LinePush(curr, part) ELSE curr
  IN  IF Len(parts) > 1
      THEN PartsAcc(Tail(parts), PushBackLine(r, c1), LineNew)
      ELSE [r |-> r, curr |-> c1]

RECURSIVE ParagraphAcc(_, _, _, _)
ParagraphAcc(p, r, defs, curr) ==
  IF p = <<>> THEN [r |-> PushBackLine(r, curr), defs |-> defs]
  ELSE LET inl == Head(p)
       IN  CASE inl.k = "SoftBreak" ->
                  ParagraphAcc(Tail(p), PushBackLine(r, curr), defs, LineNew)
             [] inl.k = "HardBreak" ->
                  ParagraphAcc(Tail(p), PushBackLine(r, LinePush(curr, <<" ", " ">>)),
                               defs, LineNew)
             [] OTHER ->
                  LET res == AppendInlineToLine(LineNew, inl)
                      defs1 == IF res.def.some
                                  /\ ~ \E j \in 1..Len(defs) : defs[j].id = res.def.v.id
                               THEN Append(defs, res.def.v) ELSE defs
                      st == PartsAcc(Split(LineApply(res.line), NL), r, curr)
                  IN  ParagraphAcc(Tail(p), st.r, defs1, st.curr)

RECURSIVE PushSuffixLines(_, _)
PushSuffixLines(r, ls) ==
  IF ls = <<>> THEN r ELSE PushSuffixLines(PushBackSuffixLine(r, Head(ls)), Tail(ls))

render_paragraph(p) ==
  LET st == ParagraphAcc(p, RegionNew, <<>>, LineNew)
      r1 == IF st.defs # <<>> /\ ~ RegionIsEmpty(st.r)
            THEN PushBackLine(st.r, LineFromStr(<<>>)) ELSE st.r
  IN  PushSuffixLines(r1, [j \in 1..Len(st.defs) |-> DefLine(st.defs[j])])

render_heading(level, content) ==
  PushBackLine(RegionNew,
               AppendChildren(LinePush(LinePush(LineNew, Repeat("#", level)), <<" ">>),
                              content))

\* the longest run of backticks in s
RECURSIVE MaxTicksAcc(_, _, _)
MaxTicksAcc(s, cur, maxTicks) ==
  IF s = <<>> THEN maxTicks
  ELSE IF Head(s) = Backtick
  THEN MaxTicksAcc(Tail(s), cur + 1, Max(maxTicks, cur + 1))
  ELSE MaxTicksAcc(Tail(s), 0, maxTicks)

RECURSIVE PushLines(_, _)
PushLines(r, ls) ==
  IF ls = <<>> THEN r ELSE PushLines(PushBackLine(r, Head(ls)), Tail(ls))

StrsToLines(ss) == [j \in 1..Len(ss) |-> LineFromStr(ss[j])]

MinFence == 3
IndentWidth == 4

\* a variant of render_codeblock whose fence is only as long as the longest run
render_codeblock_FenceNotEscalated(kind, content) ==
  LET content_str == RegionApply(content)
      ticks == Max(MinFence, MaxTicksAcc(content_str, 0, 0))
  IN  PushBackLine(
        PushLines(PushBackLine(RegionNew, LineFromStr(Repeat(Backtick, ticks) \o kind.lang)),
                  StrsToLines(StrLines(content_str))),
        LineFromStr(Repeat(Backtick, ticks)))

render_codeblock(kind, content) ==
  LET content_str == RegionApply(content)
  IN  IF kind.c = "Fenced"
      THEN LET ticks == Max(MinFence, MaxTicksAcc(content_str, 0, 0) + 1)
               fence == Repeat(Backtick, ticks) \o kind.lang
           IN  PushBackLine(
                 PushLines(PushBackLine(RegionNew, LineFromStr(fence)),
                           StrsToLines(StrLines(content_str))),
                 LineFromStr(Repeat(Backtick, ticks)))
      ELSE PushLines(RegionNew,
                     RegionIntoLines(IndentEachLine(RegionFromStr(content_str), IndentWidth)))

render_rule == PushBackLine(RegionNew, LineFromStr(<<"-", "-", "-">>))

\* merge consecutive paragraphs inside a list item
RECURSIVE MergeParagraphs(_, _)
MergeParagraphs(item, merged) ==
  IF item = <<>> THEN merged
  ELSE LET ch == Head(item)
       IN  IF merged # <<>> /\ Last(merged).k = "Paragraph" /\ ch.k = "Paragraph"
           THEN MergeParagraphs(Tail(item),
                  [merged EXCEPT ![Len(merged)] = BlkParagraph(@.inl \o ch.inl)])
           ELSE MergeParagraphs(Tail(item), Append(merged, ch))

\* cells of absent columns are one empty line; col ranges over 1..cols
CellsText(rows, cols, cellLines(_)) ==
  [ri \in 1..Len(rows) |->
     [c \in 1..cols |-> IF c <= Len(rows[ri]) THEN cellLines(rows[ri][c]) ELSE << <<>> >>]]

RECURSIVE MaxOfSeq(_)
MaxOfSeq(ns) == IF ns = <<>> THEN 0 ELSE Max(Head(ns), MaxOfSeq(Tail(ns)))

cell_to_lines(cell) == Split(LineApply(AppendChildren(LineNew, cell)), NL)

AlignGet(aligns, c) == IF c <= Len(aligns) THEN Some(aligns[c]) ELSE None

SepCell(align, w) ==
  IF align.some /\ align.v = "Left"
  THEN PadToWidth(<<":">> \o Repeat("-", SaturatingSub(w, 1)), w, None)
  ELSE IF align.some /\ align.v = "Right"
  THEN PadToWidth(Repeat("-", SaturatingSub(w, 1)) \o <<":">>, w, None)
  ELSE IF align.some /\ align.v = "Center"
  THEN PadToWidth(<<":">> \o Repeat("-", SaturatingSub(w, 2)) \o <<":">>, w, None)
  ELSE Repeat("-", w)

ColSep == <<" ", "|", " ">>

\* a line of the table: the cells of each column, " | " pushed between them
TableLine(cols, cell(_)) ==
  Flatten([c \in 1..cols |-> IF c > 1 THEN <<ColSep, cell(c)>> ELSE <<cell(c)>>])

render_table_full(aligns, rows) ==
  LET cols == Max(Len(aligns), MaxOfSeq([ri \in 1..Len(rows) |-> Len(rows[ri])]))
      cells_text == CellsText(rows, cols, cell_to_lines)
      col_widths == [c \in 1..cols |->
                       MaxOfSeq([ri \in 1..Len(cells_text) |->
                                   MaxOfSeq([li \in 1..Len(cells_text[ri][c]) |->
                                               Width(cells_text[ri][c][li])])])]
      rowLine(ri) ==
        LET cell(c) == PadToWidth(Join(cells_text[ri][c], <<NL>>), col_widths[c],
                                  AlignGet(aligns, c))
        IN  TableLine(cols, cell)
      sepLine == LET cell(c) == SepCell(AlignGet(aligns, c), col_widths[c])
                 IN  TableLine(cols, cell)
  IN  IF cells_text = <<>> THEN RegionNew
      ELSE PushLines(PushBackLine(PushBackLine(RegionNew, rowLine(1)), sepLine),
                     [ri \in 1..(Len(cells_text) - 1) |-> rowLine(ri + 1)])

\* Block::Custom: the Text and Html events of the node, line by line
CustomBlockLines(evs) ==
  Flatten([j \in 1..Len(evs) |->
             IF evs[j].k \in {"Text", "Html"} THEN StrsToLines(StrLines(evs[j].s))
             ELSE <<>>])

RECURSIVE block_to_region(_)
\* the regions of a sequence of blocks, an empty line pushed between two blocks
BlocksInner(children) ==
  PushLines(RegionNew,
            Flatten([j \in 1..Len(children) |->
                       (IF j > 1 THEN <<LineFromStr(<<>>)>> ELSE <<>>)
                         \o RegionIntoLines(block_to_region(children[j]))]))

render_blockquote(children) ==
  LET inner == BlocksInner(children)
  IN  IF RegionIsEmpty(inner) THEN RegionNew ELSE PrefixEachLine(inner, <<">", " ">>)

ItemRegion(ordered, start, idx, item) ==
  LET marker == IF ordered
                THEN Decimal((IF start.some THEN start.v ELSE 1) + (idx - 1)) \o <<".", " ">>
                ELSE <<"-", " ">>
      merged == MergeParagraphs(item, <<>>)
      body == BlocksInner(merged)
      first_is_list == item # <<>> /\ item[1].k = "List"
      item_region == IF RegionIsEmpty(body) /\ ~ first_is_list
                     THEN PushBackLine(body, LineFromStr(<<>>)) ELSE body
  IN  PrefixFirstThenIndentRest(item_region, marker)

render_list(ordered, start, items) ==
  PushLines(RegionNew,
            Flatten([j \in 1..Len(items) |->
                       Append(RegionIntoLines(ItemRegion(ordered, start, j, items[j])),
                              LineFromStr(<<>>))]))

render_footnote_def(id, children) ==
  LET lines == RegionIntoLines(IndentEachLine(BlocksInner(children), IndentWidth))
  IN  IF lines = <<>> THEN RegionNew
      ELSE PushLines(
             PushBackLine(RegionNew,
                          LinePush(LineFromStr(<<"[", "^">> \o id \o <<"]", ":", " ">>),
                                   LineApply(lines[1]))),
             Tail(lines))

block_to_region(b) ==
  CASE b.k = "Paragraph" -> render_paragraph(b.inl)
    [] b.k = "Heading" -> render_heading(b.level, b.children)
    [] b.k = "CodeBlock" -> render_codeblock(b.kind, b.content)
    [] b.k = "HtmlBlock" ->
         PushLines(RegionNew, StrsToLines(Split(RegionApply(b.r), NL)))
    [] b.k = "BlockQuote" -> render_blockquote(b.children)
    [] b.k = "List" -> render_list(b.start.some, b.start, b.items)
    [] b.k = "Rule" -> render_rule
    [] b.k = "FootnoteDefinition" -> render_footnote_def(b.label, b.children)
    [] b.k = "TableFull" -> render_table_full(b.aligns, b.rows)
    [] b.k = "Custom" -> PushLines(RegionNew, CustomBlockLines(BlockNodeToEvents(b.name)))
    [] OTHER -> RegionNew

\* the text of one block: every line of its region followed by "\n"
BlockText(b) ==
  LET ls == RegionIntoLines(block_to_region(b))
  IN  Flatten([j \in 1..Len(ls) |-> Append(LineApply(ls[j]), NL)])

blocks_to_markdown(blocks) ==
  Flatten([j \in 1..Len(blocks) |->
             (IF j > 1 THEN <<NL, NL>> ELSE <<>>) \o BlockText(blocks[j])])

(***************************************************************************)
(* The state of one call of parse_events_to_blocks_with_hook.              *)
(*   events      the input slice                                           *)
(*   mode        "none": hook = None (parse_events_to_blocks);             *)
(*               "hook": a caller's hook;                                  *)
(*               "parsers": the closure of parse_events_to_blocks_with_    *)
(*               parsers over NumParsers block parsers                     *)
(*   i, stack, out   the locals of the loop                                *)
(*   pc          "run" inside the loop, "done" after `out` is returned     *)
(*   nparsers    the length of the parser list (mode "parsers")            *)
(*   hits        how often the hook has answered Some                      *)
(*   calls       history: every call of the hook or of a parser, with its  *)
(*               arguments, its answer, the cursor and the iteration       *)
(*   structural  history: the indexes of the events the `match ev` has     *)
(*               processed, in order                                       *)
(*   reemitted   the events of block_to_events over the result             *)
(*   md          the text of blocks_to_markdown over the result            *)
(*   region      the Region of block_to_region over one block              *)
(***************************************************************************)
VARIABLES events, mode, nparsers, i, stack, out, pc, hits, calls, structural,
          reemitted, md, region, op

vars == <<events, mode, nparsers, i, stack, out, pc, hits, calls, structural,
          reemitted, md, region, op>>

\* what a hook or a parser may answer: None, or Some((consumed, block))
\* (a hook may answer any count: none, one, several, more than there are events;
\* the parsers of the model answer one or two)
ConsumedChoices == {0, 1, 2, UsizeMax}
ParserConsumed == {1, 2}

Answer(c, name) == Some([consumed |-> c, blk |-> BlkCustom(name)])

HookAnswers == {None} \cup {Answer(c, <<"hook", 0>>) : c \in ConsumedChoices}

\* one answer per registered parser: what it returns if it is asked
ParserAnswerFns ==
  {[p \in 1..nparsers |-> IF f[p].some THEN Answer(f[p].v, <<"parser", p>>) ELSE None] :
     f \in [1..nparsers -> {None} \cup {Some(c) : c \in ParserConsumed}]}

\* the record of one call: who = 0 is the hook, who = p the p-th parser
CallRec(who, ret) ==
  [who |-> who, evs |-> SliceFrom(events, i), idx |-> i,
   ctx |-> BuildContext(stack, i), ret |-> ret,
   cursor |-> i, at |-> Len(structural), iter |-> Len(structural) + hits]

\* a variant of the closure that keeps trying after a parser has answered
LastSome(ans) ==
  IF \E p \in 1..nparsers : ans[p].some
  THEN CHOOSE p \in 1..nparsers : ans[p].some /\ \A q \in (p + 1)..nparsers : ~ans[q].some
  ELSE 0

\* parse_events_to_blocks_with_parsers: the closure tries the parsers in order
FirstSome(ans) ==
  IF \E p \in 1..nparsers : ans[p].some
  THEN CHOOSE p \in 1..nparsers : ans[p].some /\ \A q \in 1..(p - 1) : ~ans[q].some
  ELSE 0

ParsersOutcome(ans) ==
  LET n == FirstSome(ans)
  IN  [ret |-> IF n = 0 THEN None ELSE ans[n],
       log |-> [p \in 1..(IF n = 0 THEN nparsers ELSE n) |-> CallRec(p, ans[p])]]

\* `if let Some(h) = hook.as_mut()`: the answer of this iteration and the calls made
HookOutcomes ==
  CASE mode = "none" -> {[ret |-> None, log |-> <<>>]}
    [] mode = "hook" -> {[ret |-> a, log |-> <<CallRec(0, a)>>] : a \in HookAnswers}
    [] mode = "parsers" -> {ParsersOutcome(ans) : ans \in ParserAnswerFns}

InLoop == pc = "run" /\ i < Len(events)

\* the hook answers Some((consumed, blk)): push blk, advance, continue
HookConsumes ==
  /\ InLoop
  /\ hits < MaxHookHits
  /\ \E o \in HookOutcomes :
       /\ o.ret.some
       /\ out' = Append(out, o.ret.v.blk)
       /\ i' = SaturatingAdd(i, o.ret.v.consumed)
       /\ calls' = calls \o o.log
  /\ hits' = hits + 1
  /\ UNCHANGED <<events, mode, nparsers, stack, pc, structural, reemitted, md, region, op>>

\* a variant of the iteration in which an event a hook declined is skipped
StructuralStep_DeclinedEventSkipped ==
  /\ \E o \in HookOutcomes :
       /\ ~o.ret.some
       /\ calls' = calls \o o.log
  /\ LET st == IF mode = "none" THEN Structural(events[i + 1], stack, out)
               ELSE PState(stack, out)
     IN  stack' = st.stack /\ out' = st.out
  /\ i' = i + 1
  /\ structural' = Append(structural, i)
  /\ UNCHANGED <<events, mode, nparsers, pc, hits, reemitted, md, region, op>>

\* no hook, or the hook declines: the `match ev` processes events[i]
StructuralStep ==
  /\ \E o \in HookOutcomes :
       /\ ~o.ret.some
       /\ calls' = calls \o o.log
  /\ LET st == Structural(events[i + 1], stack, out)
     IN  stack' = st.stack /\ out' = st.out
  /\ i' = i + 1
  /\ structural' = Append(structural, i)
  /\ UNCHANGED <<events, mode, nparsers, pc, hits, reemitted, md, region, op>>

StartEvent == InLoop /\ events[i + 1].k = "Start" /\ StructuralStep

EndEvent == InLoop /\ events[i + 1].k = "End" /\ StructuralStep

LeafEvent == InLoop /\ events[i + 1].k \in LeafKinds /\ StructuralStep

\* the frames still open closed one after the other, innermost first
RECURSIVE CloseAll(_, _)
CloseAll(st, ot) ==
  IF st = <<>> THEN ot
  ELSE LET s == AttachClosed(FrameToNode(Last(st)), Front(st), ot)
       IN  CloseAll(s.stack, s.out)

\* a variant of the return in which the frames still open are closed into `out`
Return_OpenFramesClosed ==
  /\ pc = "run"
  /\ i >= Len(events)
  /\ pc' = "done"
  /\ out' = CloseAll(stack, out)
  /\ stack' = <<>>
  /\ UNCHANGED <<events, mode, nparsers, i, hits, calls, structural, reemitted, md, region, op>>

\* the loop ends and `out` is returned
Return ==
  /\ pc = "run"
  /\ i >= Len(events)
  /\ pc' = "done"
  /\ UNCHANGED <<events, mode, nparsers, i, stack, out, hits, calls, structural, reemitted, md, region, op>>

(***************************************************************************)
(* Spec: the engine with every kind of caller, over all short sequences    *)
(* of a small vocabulary (well nested or not).                             *)
(***************************************************************************)
TxtA == <<"a">>

HookVocab ==
  {EvStart(TagPlain("Paragraph")), EvStart(TagBlockQuote(None)),
   EvEnd(TagPlain("Paragraph")), EvText(TxtA)}

\* no call on a Region yet
NoOp == [name |-> "none", p |-> <<>>, n |-> 0, line |-> <<>>]

InitLocals ==
  /\ op = NoOp
  /\ i = 0
  /\ stack = <<>>
  /\ out = <<>>
  /\ pc = "run"
  /\ hits = 0
  /\ calls = <<>>
  /\ structural = <<>>
  /\ reemitted = <<>>
  /\ md = <<>>
  /\ region = RegionNew

Init ==
  /\ events \in SeqsUpTo(HookVocab, MaxLen)
  /\ mode \in {"none", "hook", "parsers"}
  /\ nparsers \in IF mode = "parsers" THEN 0..NumParsers ELSE {0}
  /\ InitLocals

Next == HookConsumes \/ StartEvent \/ EndEvent \/ LeafEvent \/ Return

Spec == Init /\ [][Next]_vars

(***************************************************************************)
(* SpecLeaf: parse_events_to_blocks over all short sequences of a          *)
(* vocabulary that holds every leaf event.                                 *)
(***************************************************************************)
LeafVocab ==
  {EvStart(TagPlain("Paragraph")), EvStart(TagPlain("Item")), EvEnd(TagPlain("Paragraph")),
   EvText(TxtA), EvCode(TxtA), EvInlineHtml(TxtA), EvHtml(TxtA), EvSoftBreak, EvHardBreak,
   EvRule, EvTaskListMarker(TRUE), EvTaskListMarker(FALSE), EvFootnoteReference(TxtA),
   EvInlineMath(TxtA), EvDisplayMath(TxtA)}

InitLeaf ==
  /\ events \in SeqsUpTo(LeafVocab, MaxLen)
  /\ mode = "none"
  /\ nparsers = 0
  /\ InitLocals

NextLeaf == StartEvent \/ EndEvent \/ LeafEvent \/ Return

SpecLeaf == InitLeaf /\ [][NextLeaf]_vars

(***************************************************************************)
(* SpecDoc: parse_events_to_blocks over the event sequences the tokenizer  *)
(* gives for short Markdown documents, then the tree re-emitted by         *)
(* block_to_events and rendered by blocks_to_markdown.                     *)
(***************************************************************************)
\* most root blocks in a document
MaxBlocks == 2

Para(evs) == <<EvStart(TagPlain("Paragraph"))>> \o evs \o <<EvEnd(TagPlain("Paragraph"))>>

ListOf(start, itemEvs) ==
  <<EvStart(TagList(start)), EvStart(TagPlain("Item"))>> \o itemEvs
    \o <<EvEnd(TagPlain("Item")), EvEnd(TagEndList(start.some))>>

\* the events of one root block, as the tokenizer gives them for the Markdown
\* named on each line
BlockSamples ==
  { Para(<<EvText(TxtA)>>),                                              \* a
    Para(<<EvStart(TagPlain("Emphasis")), EvText(TxtA),
           EvEnd(TagPlain("Emphasis"))>>),                               \* *a*
    Para(<<EvText(<<"*", "a">>), EvText(<<"*">>)>>),                     \* \*a\*
    Para(<<EvText(TxtA), EvSoftBreak, EvText(TxtA)>>),                   \* a NL a
    <<EvStart(TagHeading(1, None, <<>>, <<>>)), EvText(TxtA),
      EvEnd(TagEndHeading(1))>>,                                         \* # a
    <<EvStart(TagHeading(1, Some(<<"i">>), << <<"c">> >>, <<>>)), EvText(TxtA),
      EvEnd(TagEndHeading(1))>>,                                         \* # a {#i .c}
    <<EvStart(TagBlockQuote(None))>> \o Para(<<EvText(TxtA)>>)
      \o <<EvEnd(TagEndBlockQuote(None))>>,                              \* > a
    <<EvStart(TagCodeBlock(Fenced(<<>>))), EvText(<<"a", NL>>),
      EvEnd(TagPlain("CodeBlock"))>>,                                    \* fenced a
    <<EvStart(TagPlain("HtmlBlock")), EvHtml(<<"<", "b", ">", NL>>),
      EvEnd(TagPlain("HtmlBlock"))>>,                                    \* <b>
    ListOf(None, <<EvText(TxtA)>>),                                      \* - a
    ListOf(None, <<EvTaskListMarker(TRUE), EvText(TxtA)>>),              \* - [x] a
    ListOf(Some(1), Para(<<EvText(TxtA)>>)),                             \* 1. a (loose)
    <<EvRule>>,                                                          \* ---
    <<EvStart(TagTable(<<"None">>)), EvStart(TagPlain("TableHead")),
      EvStart(TagPlain("TableCell")), EvText(TxtA), EvEnd(TagPlain("TableCell")),
      EvEnd(TagPlain("TableHead")), EvEnd(TagPlain("Table"))>> }         \* |a| over |-|

Documents == {Flatten(d) : d \in SeqsUpTo(BlockSamples, MaxBlocks)}

InitDoc ==
  /\ events \in Documents
  /\ mode = "none"
  /\ nparsers = 0
  /\ InitLocals

\* the caller re-emits the events of the returned tree
Reemit ==
  /\ pc = "done"
  /\ reemitted' = BlocksToEvents(out)
  /\ pc' = "reemitted"
  /\ UNCHANGED <<events, mode, nparsers, i, stack, out, hits, calls, structural, md, region, op>>

\* the caller renders the returned tree
Render ==
  /\ pc = "reemitted"
  /\ md' = blocks_to_markdown(out)
  /\ pc' = "rendered"
  /\ UNCHANGED <<events, mode, nparsers, i, stack, out, hits, calls, structural, reemitted, region, op>>

NextDoc == StartEvent \/ EndEvent \/ LeafEvent \/ Return \/ Reemit \/ Render

SpecDoc == InitDoc /\ [][NextDoc]_vars

(***************************************************************************)
(* SpecWrite: block_to_region and blocks_to_markdown over one block of a   *)
(* tree built directly (not by the engine): `out` holds the block, and the *)
(* step of its kind renders it.                                            *)
(***************************************************************************)
\* longest code block content
MaxCode == 4

CodeChars == {"a", Backtick, NL}

Langs == {<<>>, <<"r">>}

CodeBlockTrees ==
  {BlkCodeBlock(Fenced(l), RegionFromStr(c)) : l \in Langs, c \in SeqsUpTo(CodeChars, MaxCode)}

\* most items in a list
MaxItems == 2

TextOf(s) == InlText(RegionFromStr(s))
P(s) == BlkParagraph(<<TextOf(s)>>)

\* a reference-style link [a][r] to dest with title
RefLink(dest, title) ==
  InlLink("Link", TagLink("Link", "Reference", dest, title, <<"r">>), <<TextOf(<<"a">>)>>)

ItemSamples ==
  { <<>>,
    <<P(<<"a">>)>>,
    <<P(<<"a">>), P(<<"b">>)>>,
    <<BlkParagraph(<<TextOf(<<"a">>), InlSoftBreak, TextOf(<<"b">>)>>)>>,
    <<P(<<"a">>), BlkRule>>,
    <<BlkParagraph(<<RefLink(<<"u">>, <<>>)>>)>>,
    <<P(<<"a">>), BlkList(None, << <<P(<<"b">>)>> >>)>>,
    <<BlkList(None, <<>>)>>,
    <<BlkList(None, << <<P(<<"b">>)>> >>)>>,
    <<BlkBlockQuote(<<>>)>> }

ListStarts == {None, Some(1), Some(2), Some(9)}

ListTrees == {BlkList(st, its) : st \in ListStarts, its \in SeqsUpTo(ItemSamples, MaxItems)}

\* most children of a block quote or of a footnote definition
MaxChildren == 2

ChildSamples ==
  { P(<<"a">>),
    BlkParagraph(<<RefLink(<<"u">>, <<>>)>>),
    BlkRule,
    BlkBlockQuote(<<>>),
    BlkBlockQuote(<<P(<<"a">>)>>),
    BlkBlockQuote(<<BlkParagraph(<<RefLink(<<"u">>, <<>>)>>), BlkRule>>) }

BlockQuoteTrees == {BlkBlockQuote(cs) : cs \in SeqsUpTo(ChildSamples, MaxChildren)}

FootnoteTrees ==
  {BlkFootnoteDefinition(<<"n">>, cs) : cs \in SeqsUpTo(ChildSamples, MaxChildren)}

\* most columns of a table
MaxCols == 2

Alignments == {"None", "Left", "Right", "Center"}

\* single-line cells of display width 0, 1 and 2
CellSamples == {<<>>, <<TextOf(<<"A">>)>>, <<TextOf(<<Wide>>)>>}

RowSamples == SeqsUpTo(CellSamples, MaxCols)

\* alignments [Left, Right], header A, B and one body row 1, 22
LeftRightTable ==
  BlkTableFull(<<"Left", "Right">>,
               << << <<TextOf(<<"A">>)>>, <<TextOf(<<"B">>)>> >>,
                  << <<TextOf(<<"1">>)>>, <<TextOf(<<"2", "2">>)>> >> >>)

\* no row, a header row, or a header row and one body row
TableTrees ==
  {BlkTableFull(al, rows) :
     al \in SeqsUpTo(Alignments, MaxCols),
     rows \in {<<>>} \cup {<<h>> : h \in RowSamples}
                    \cup {<<h, b>> : h \in RowSamples, b \in RowSamples}}
    \cup {LeftRightTable}

\* a header cell and a body cell that hold a reference-style link
RefCellTable ==
  BlkTableFull(<<"None">>,
               << << <<RefLink(<<"u">>, <<>>)>> >>, << <<InlSpan("Strong", <<RefLink(<<"u">>, <<>>)>>)>> >> >>)

\* most inlines in a paragraph or a heading
MaxInl == 2

LinkOf(kind, link_type, dest, title, id, children) ==
  InlLink(kind, TagLink(kind, link_type, dest, title, id), children)

\* links and images of every form, alone, sharing the id r, nested in spans
\* and in the text of a link, with characters to escape; custom inlines
InlineSamples ==
  { TextOf(<<"a">>),
    RefLink(<<"u">>, <<>>),
    RefLink(<<"v">>, <<"t">>),
    LinkOf("Image", "Collapsed", <<"w">>, <<>>, <<"r">>, <<TextOf(<<"a">>)>>),
    LinkOf("Link", "Shortcut", <<"x">>, <<>>, <<"s">>, <<TextOf(<<"a">>)>>),
    InlSpan("Emphasis", <<RefLink(<<"v">>, <<"t">>)>>),
    InlSpan("Strikethrough", <<InlSpan("Strong", <<RefLink(<<"u">>, <<>>)>>)>>),
    LinkOf("Link", "Inline", <<"y">>, <<>>, <<>>, <<RefLink(<<"u">>, <<>>)>>),
    LinkOf("Link", "Inline", <<"(", BackSlash, ")">>, <<DQuote, BackSlash>>, <<>>,
           <<TextOf(<<"a">>)>>),
    LinkOf("Image", "Inline", <<"(", BackSlash, ")">>, <<DQuote, BackSlash>>, <<>>,
           <<TextOf(<<"a">>)>>),
    LinkOf("Link", "Inline", <<"(", "y">>, <<>>, <<>>, <<TextOf(<<"a">>)>>),
    LinkOf("Image", "Inline", <<"y">>, <<"t">>, <<>>, <<TextOf(<<"a">>)>>),
    InlCustom(<<"span", 0>>),
    InlCustom(<<"NoInline", 0>>) }

ParagraphTrees == {BlkParagraph(p) : p \in SeqsUpTo(InlineSamples, MaxInl)}

HeadingTrees ==
  {BlkHeading(lv, None, <<>>, <<>>, p) : lv \in {1, 2}, p \in SeqsUpTo(InlineSamples, MaxInl)}

CustomTrees == {BlkCustom(<<"figure", 0>>), BlkCustom(<<"NoBlock", 0>>)}

WriterTrees ==
  CodeBlockTrees \cup ListTrees \cup BlockQuoteTrees \cup FootnoteTrees
    \cup TableTrees \cup {RefCellTable} \cup ParagraphTrees \cup HeadingTrees \cup CustomTrees

InitWrite ==
  /\ op = NoOp
  /\ events = <<>>
  /\ mode = "none"
  /\ nparsers = 0
  /\ i = 0
  /\ stack = <<>>
  /\ out \in {<<b>> : b \in WriterTrees}
  /\ pc = "tree"
  /\ hits = 0
  /\ calls = <<>>
  /\ structural = <<>>
  /\ reemitted = <<>>
  /\ md = <<>>
  /\ region = RegionNew

\* block_to_region and blocks_to_markdown of the block, by the arm of its kind
WriteBlock(kind) ==
  /\ pc = "tree"
  /\ out[1].k = kind
  /\ region' = block_to_region(out[1])
  /\ md' = blocks_to_markdown(out)
  /\ pc' = "written"
  /\ UNCHANGED <<events, mode, nparsers, i, stack, out, hits, calls, structural, reemitted, op>>

WriteCodeBlock == WriteBlock("CodeBlock")

WriteList == WriteBlock("List")

WriteBlockQuote == WriteBlock("BlockQuote")

WriteFootnoteDefinition == WriteBlock("FootnoteDefinition")

WriteTableFull == WriteBlock("TableFull")

WriteParagraph == WriteBlock("Paragraph")

WriteHeading == WriteBlock("Heading")

WriteCustom == WriteBlock("Custom")

NextWrite ==
  \/ WriteCodeBlock
  \/ WriteList
  \/ WriteBlockQuote
  \/ WriteFootnoteDefinition
  \/ WriteTableFull
  \/ WriteParagraph
  \/ WriteHeading
  \/ WriteCustom

SpecWrite == InitWrite /\ [][NextWrite]_vars

\* the block rendered and the strings of its region's lines, main then suffix
Written(kind) == pc = "written" /\ out[1].k = kind

RegionStrs(r) ==
  LET ls == RegionIntoLines(r) IN [j \in 1..Len(ls) |-> LineApply(ls[j])]


(***************************************************************************)
(* src/text/region.rs as an object: a caller builds a Region with          *)
(* push_front_line, push_back_line and push_back_suffix_line and applies   *)
(* the transforms to it.  op records the last call and its argument.       *)
(***************************************************************************)
\* most lines of the region, main and suffix together
MaxRegionLines == 3
\* most fragments a transform may find on a line
MaxFragments == 1

RegionLineVocab == {LineFromStr(<<"a">>), LineFromStr(<<"b">>)}
Prefixes == {<<>>, <<"-", " ">>}
Indents == {0, 2}

InitRegion ==
  /\ events = <<>>
  /\ mode = "none"
  /\ nparsers = 0
  /\ i = 0
  /\ stack = <<>>
  /\ out = <<>>
  /\ pc = "region"
  /\ hits = 0
  /\ calls = <<>>
  /\ structural = <<>>
  /\ reemitted = <<>>
  /\ md = <<>>
  /\ region = RegionNew
  /\ op = NoOp

RegionUnchanged ==
  UNCHANGED <<events, mode, nparsers, i, stack, out, pc, hits, calls, structural,
              reemitted, md>>

HasRoom == Len(region.lines) + Len(region.suffix) < MaxRegionLines

Transformable ==
  \A j \in 1..Len(RegionIntoLines(region)) : Len(RegionIntoLines(region)[j]) <= MaxFragments

push_front_line ==
  /\ pc = "region" /\ HasRoom
  /\ \E l \in RegionLineVocab :
       /\ region' = PushFrontLine(region, l)
       /\ op' = [NoOp EXCEPT !.name = "push_front_line", !.line = l]
  /\ RegionUnchanged

push_back_line ==
  /\ pc = "region" /\ HasRoom
  /\ \E l \in RegionLineVocab :
       /\ region' = PushBackLine(region, l)
       /\ op' = [NoOp EXCEPT !.name = "push_back_line", !.line = l]
  /\ RegionUnchanged

push_back_suffix_line ==
  /\ pc = "region" /\ HasRoom
  /\ \E l \in RegionLineVocab :
       /\ region' = PushBackSuffixLine(region, l)
       /\ op' = [NoOp EXCEPT !.name = "push_back_suffix_line", !.line = l]
  /\ RegionUnchanged

prefix_each_line ==
  /\ pc = "region" /\ Transformable
  /\ \E p \in Prefixes :
       /\ region' = PrefixEachLine(region, p)
       /\ op' = [NoOp EXCEPT !.name = "prefix_each_line", !.p = p]
  /\ RegionUnchanged

indent_each_line ==
  /\ pc = "region" /\ Transformable
  /\ \E n \in Indents :
       /\ region' = IndentEachLine(region, n)
       /\ op' = [NoOp EXCEPT !.name = "indent_each_line", !.n = n]
  /\ RegionUnchanged

prefix_first_then_indent_rest ==
  /\ pc = "region" /\ Transformable
  /\ \E p \in Prefixes :
       /\ region' = PrefixFirstThenIndentRest(region, p)
       /\ op' = [NoOp EXCEPT !.name = "prefix_first_then_indent_rest", !.p = p]
  /\ RegionUnchanged

NextRegion ==
  \/ push_front_line
  \/ push_back_line
  \/ push_back_suffix_line
  \/ prefix_each_line
  \/ indent_each_line
  \/ prefix_first_then_indent_rest

SpecRegion == InitRegion /\ [][NextRegion]_vars

(***************************************************************************)
(* SpecTree: parse_events_to_blocks over event sequences that nest lists,  *)
(* tables and spans, close a frame with an End of another kind, or end     *)
(* while frames are open.                                                  *)
(***************************************************************************)
Txt == EvText(TxtA)

ItemEv(body) == <<EvStart(TagPlain("Item"))>> \o body \o <<EvEnd(TagPlain("Item"))>>

ListEv(start, body) ==
  <<EvStart(TagList(start))>> \o body \o <<EvEnd(TagEndList(start.some))>>

QuoteEv(body) ==
  <<EvStart(TagBlockQuote(None))>> \o body \o <<EvEnd(TagEndBlockQuote(None))>>

SpanEv(tag, body) == <<EvStart(tag)>> \o body \o <<EvEnd(TagPlain(tag.t))>>

\* most children of a list frame
MaxListChildren == 2

\* what a list frame may hold: items (empty, tight, loose with a rule, with a
\* nested list) and children that are not items (a paragraph, a rule, a text)
ListChildSamples ==
  { ItemEv(<<>>),
    ItemEv(<<Txt>>),
    ItemEv(Para(<<Txt>>) \o <<EvRule>>),
    ItemEv(<<Txt>> \o ListEv(None, ItemEv(<<Txt>>))),
    Para(<<Txt>>),
    <<EvRule>>,
    <<Txt>> }

ListDocs ==
  {ListEv(st, Flatten(cs)) :
     st \in {None, Some(3)}, cs \in SeqsUpTo(ListChildSamples, MaxListChildren)}

\* most cells of a table row
MaxCells == 2

\* a cell: the events between Start(TableCell) and End(TableCell), and the
\* inlines they stand for
CellDescs ==
  { [evs |-> <<>>, inls |-> <<>>],
    [evs |-> <<Txt>>, inls |-> <<InlText(RegionFromStr(TxtA))>>],
    [evs |-> SpanEv(TagPlain("Emphasis"), <<Txt>>) \o <<EvCode(<<"b">>)>>,
     inls |-> <<InlSpan("Emphasis", <<InlText(RegionFromStr(TxtA))>>),
                InlCode(RegionFromStr(<<"b">>))>>] }

RowDescs == SeqsUpTo(CellDescs, MaxCells)

\* a header row alone, with one body row, or with a body row of no cell and
\* another body row
TableDescs ==
  {[aligns |-> al, rows |-> rows] :
     al \in {<<>>, <<"Left", "None">>},
     rows \in {<<h>> : h \in RowDescs} \cup {<<h, b>> : h \in RowDescs, b \in RowDescs}
                \cup {<<h, <<>>, b>> : h \in RowDescs, b \in RowDescs}}

CellEv(c) ==
  <<EvStart(TagPlain("TableCell"))>> \o c.evs \o <<EvEnd(TagPlain("TableCell"))>>

RowEv(kind, row) ==
  <<EvStart(TagPlain(kind))>> \o Flatten([c \in 1..Len(row) |-> CellEv(row[c])])
    \o <<EvEnd(TagPlain(kind))>>

TableEv(d) ==
  <<EvStart(TagTable(d.aligns))>>
    \o Flatten([r \in 1..Len(d.rows) |->
                  RowEv(IF r = 1 THEN "TableHead" ELSE "TableRow", d.rows[r])])
    \o <<EvEnd(TagPlain("Table"))>>

TableDocs == {TableEv(d) : d \in TableDescs} \cup {QuoteEv(TableEv(d)) : d \in TableDescs}

SpanTagSamples ==
  {TagPlain(t) : t \in SpanTags}
    \cup {TagLink(kind, "Inline", <<"u">>, <<"t">>, <<>>) : kind \in {"Link", "Image"}}

\* a span at the root, in a frame that collects inlines, in a frame that does
\* not (with no block, after a paragraph, after a rule, after a text), in a span
SpanDocs ==
  UNION {{ SpanEv(tag, <<Txt>>),
           Para(<<Txt>> \o SpanEv(tag, <<Txt>>)),
           QuoteEv(SpanEv(tag, <<Txt>>)),
           QuoteEv(Para(<<Txt>>) \o SpanEv(tag, <<Txt>>)),
           QuoteEv(<<EvRule>> \o SpanEv(tag, <<Txt>>)),
           ItemEv(<<Txt>> \o SpanEv(tag, <<>>)),
           Para(SpanEv(TagPlain("Strong"), SpanEv(tag, <<Txt>>))) } : tag \in SpanTagSamples}

\* the End events of the vocabulary
EndSamples ==
  {EvEnd(TagPlain(t)) : t \in {"Paragraph", "Item", "Emphasis", "Link", "Table", "TableCell"}}
    \cup {EvEnd(TagEndList(TRUE)), EvEnd(TagEndHeading(1)), EvEnd(TagEndBlockQuote(None))}

\* frames closed by an End of any kind
MismatchDocs ==
  {<<st>> \o body \o <<en>> :
     st \in {EvStart(TagPlain("Paragraph")), EvStart(TagBlockQuote(None)),
             EvStart(TagList(Some(1))), EvStart(TagPlain("Emphasis")),
             EvStart(TagHeading(1, None, <<>>, <<>>))},
     body \in {<<>>, <<Txt>>, Para(<<Txt>>)},
     en \in EndSamples}

\* documents that end while frames are open: every proper prefix of a
\* document, alone or after a closed paragraph
OpenBases ==
  { QuoteEv(Para(<<Txt>>)),
    ListEv(None, ItemEv(<<Txt>>) \o ItemEv(Para(<<Txt>>))),
    Para(SpanEv(TagPlain("Emphasis"), <<Txt>>)),
    QuoteEv(<<EvRule>>) \o Para(<<Txt>>) }

OpenDocs ==
  UNION {{pre \o SubSeq(d, 1, n) : pre \in {<<>>, Para(<<Txt>>)}, n \in 0..(Len(d) - 1)} :
           d \in OpenBases}

TreeDocs == ListDocs \cup TableDocs \cup SpanDocs \cup MismatchDocs \cup OpenDocs

InitTree ==
  /\ events \in TreeDocs
  /\ mode = "none"
  /\ nparsers = 0
  /\ InitLocals

SpecTree == InitTree /\ [][NextLeaf]_vars

(***************************************************************************)
(* parse_events_to_blocks as a function of the events: the loop with       *)
(* hook = None.                                                            *)
(***************************************************************************)
RECURSIVE ParseLoop(_, _, _, _)
ParseLoop(evs, k, st, ot) ==
  IF k >= Len(evs) THEN ot
  ELSE LET s == Structural(evs[k + 1], st, ot)
       IN  ParseLoop(evs, k + 1, s.stack, s.out)

ParseEventsToBlocks(evs) == ParseLoop(evs, 0, <<>>, <<>>)

(***************************************************************************)
(* What the histories say, computed from the events alone.                 *)
(***************************************************************************)
\* the tags of the frames open after the first n structurally processed events
RECURSIVE OpenTags(_)
OpenTags(n) ==
  IF n = 0 THEN <<>>
  ELSE LET before == OpenTags(n - 1)
           ev == events[structural[n] + 1]
       IN  IF ev.k = "Start" THEN Append(before, ev.tag)
           ELSE IF ev.k = "End" /\ before # <<>> THEN Front(before)
           ELSE before

\* this step is an iteration in which the hook (or a parser) answered Some
HookHitStep == hits' = hits + 1

\* this step is an iteration that processed events[i] structurally
StructuralStepTaken == structural' = Append(structural, i)

AllDeclined == \A k \in 1..Len(calls) : ~calls[k].ret.some

(***************************************************************************)
(* C1: when the hook answers Some((consumed, node)) while a frame is open, *)
(* node is appended to the innermost frame's block list and the root       *)
(* sequence is left alone; with no frame open it is appended to the root   *)
(* sequence; in both cases the cursor advances by consumed.                *)
(***************************************************************************)
C1_HookNodeGoesToInnermostFrame ==
  [][HookHitStep =>
       LET ans == Last(calls').ret.v
       IN  /\ i' = SaturatingAdd(i, ans.consumed)
           /\ IF stack = <<>>
              THEN out' = Append(out, ans.blk) /\ stack' = stack
              ELSE /\ out' = out
                   /\ stack' = WithTop(stack, [Last(stack) EXCEPT !.blocks = Append(@, ans.blk)])
    ]_vars

(***************************************************************************)
(* C2: an End event processed structurally while the frame stack is empty  *)
(* leaves the root sequence and the stack as they are, advances the cursor *)
(* by one and leaves the loop running.                                     *)
(***************************************************************************)
C2_StrayEndIsNoOp ==
  [][(StructuralStepTaken /\ events[i + 1].k = "End" /\ stack = <<>>) =>
       (out' = out /\ stack' = <<>> /\ i' = i + 1 /\ pc' = "run")]_vars

\* a stray End was passed and the Text after it was reconstructed as usual
C2_Witness ==
  /\ pc = "done"
  /\ events = <<EvEnd(TagPlain("Paragraph")), EvText(TxtA)>>
  /\ structural = <<0, 1>>
  /\ out = <<BlkParagraph(<<InlText(RegionFromStr(TxtA))>>)>>

(***************************************************************************)
(* C3: a leaf event (Rule apart) processed structurally goes, as its       *)
(* inline, to the innermost frame's inline buffer when that frame collects *)
(* inlines; to its block buffer, wrapped in a singleton Paragraph (as an   *)
(* HtmlBlock for Html), when it does not; to the root sequence when no     *)
(* frame is open. TaskListMarker(b) is the text [x] or [ ].                *)
(***************************************************************************)
ClaimedInline(ev) ==
  CASE ev.k = "Text" -> InlText(RegionFromStr(ev.s))
    [] ev.k = "Code" -> InlCode(RegionFromStr(ev.s))
    [] ev.k = "InlineHtml" -> InlInlineHtml(RegionFromStr(ev.s))
    [] ev.k = "Html" -> InlHtml(RegionFromStr(ev.s))
    [] ev.k = "SoftBreak" -> InlSoftBreak
    [] ev.k = "HardBreak" -> InlHardBreak
    [] ev.k = "TaskListMarker" ->
         InlText(RegionFromStr(IF ev.b THEN <<"[", "x", "]">> ELSE <<"[", " ", "]">>))
    [] ev.k = "FootnoteReference" -> InlFootnoteReference(ev.s)
    [] ev.k = "InlineMath" -> InlInlineMath(RegionFromStr(ev.s))
    [] ev.k = "DisplayMath" -> InlDisplayMath(RegionFromStr(ev.s))

ClaimedBlock(ev) ==
  IF ev.k = "Html" THEN BlkHtmlBlock(RegionFromStr(ev.s))
  ELSE BlkParagraph(<<ClaimedInline(ev)>>)

C3_LeafGoesToBufferOfFlag ==
  [][(StructuralStepTaken /\ events[i + 1].k \in LeafKinds \ {"Rule"}) =>
       LET ev == events[i + 1]
       IN  IF stack = <<>>
           THEN stack' = stack /\ out' = Append(out, ClaimedBlock(ev))
           ELSE /\ out' = out
                /\ stack' = WithTop(stack,
                     IF Last(stack).collect_inlines
                     THEN [Last(stack) EXCEPT !.inlines = Append(@, ClaimedInline(ev))]
                     ELSE [Last(stack) EXCEPT !.blocks = Append(@, ClaimedBlock(ev))])
    ]_vars

(***************************************************************************)
(* What every call of the hook is given: the hook is called once in every  *)
(* iteration, before the event at the cursor is processed, with            *)
(* events[i..], i and a context whose depth is the number of frames opened *)
(* by structurally processed Start events and not yet closed by a          *)
(* structurally processed End, whose parent_tag and                        *)
(* parent_collects_inlines are those of the innermost such frame (none and *)
(* false at depth 0) and whose event_index is i.                           *)
(***************************************************************************)
HookCallsMatchIterations ==
  /\ Len(calls) = Len(structural) + hits
  /\ \A k \in 1..Len(calls) :
       LET c == calls[k]
           open == OpenTags(c.at)
       IN  /\ c.iter = k - 1
           /\ c.idx = c.cursor
           /\ c.cursor = (IF k = 1 THEN 0
                          ELSE IF calls[k - 1].ret.some
                          THEN SaturatingAdd(calls[k - 1].cursor, calls[k - 1].ret.v.consumed)
                          ELSE calls[k - 1].cursor + 1)
           /\ c.evs = SubSeq(events, c.cursor + 1, Len(events))
           /\ ~c.ret.some => (Len(structural) > c.at /\ structural[c.at + 1] = c.cursor)
           /\ c.ctx.event_index = c.cursor
           /\ c.ctx.depth = Len(open)
           /\ c.ctx.parent_tag = (IF open = <<>> THEN None ELSE Some(Last(open)))
           /\ c.ctx.parent_collects_inlines =
                (IF open = <<>> THEN FALSE ELSE CollectsInlines(Last(open)))

HookCallsHaveClaimedArguments == mode = "hook" => HookCallsMatchIterations

(***************************************************************************)
(* C4: the hook is called exactly once per cursor position (no two calls   *)
(* at the same position), before the event there is processed, and is      *)
(* given events[i..], i and the context described above.                   *)
(***************************************************************************)
C4_HookCalledExactlyOncePerPosition ==
  mode = "hook" =>
    /\ HookCallsMatchIterations
    /\ \A j, k \in 1..Len(calls) : j # k => calls[j].cursor # calls[k].cursor

(***************************************************************************)
(* C5: in every iteration the parsers are called in registration order;    *)
(* the first that answers Some ends the iteration's calls, and its block   *)
(* and count are the ones the engine uses.                                 *)
(***************************************************************************)
CustomsOf(blocks) == SelectSeq(blocks, LAMBDA b : b.k = "Custom")

C5_ParsersTriedInOrderFirstSomeWins ==
  mode = "parsers" =>
    /\ \A k \in 1..Len(calls) :
         LET c == calls[k]
             first == k = 1 \/ calls[k - 1].iter # c.iter
             last == k = Len(calls) \/ calls[k + 1].iter # c.iter
         IN  /\ c.who = (IF first THEN 1 ELSE calls[k - 1].who + 1)
             /\ ~last => ~c.ret.some
             /\ (last /\ ~c.ret.some) => c.who = nparsers
             /\ (k < Len(calls) /\ last) =>
                  calls[k + 1].cursor =
                    (IF c.ret.some THEN SaturatingAdd(c.cursor, c.ret.v.consumed)
                     ELSE c.cursor + 1)
             /\ (k = Len(calls) /\ c.ret.some) => i = SaturatingAdd(c.cursor, c.ret.v.consumed)
    /\ LET hitsOf == SelectSeq(calls, LAMBDA c : c.ret.some)
       IN  CustomsOf(out) = [k \in 1..Len(hitsOf) |-> hitsOf[k].ret.v.blk]

\* the first parser declined, the second answered, and its block was used
C5_Witness ==
  /\ mode = "parsers"
  /\ nparsers >= 2
  /\ \E k \in 1..(Len(calls) - 1) :
       /\ calls[k].who = 1 /\ ~calls[k].ret.some
       /\ calls[k + 1].who = 2 /\ calls[k + 1].ret.some /\ calls[k + 1].iter = calls[k].iter
       /\ \E j \in 1..Len(out) : out[j] = calls[k + 1].ret.v.blk

(***************************************************************************)
(* C6: when the hook declined at every position, or every parser did, or   *)
(* the parser list is empty, the result is that of parse_events_to_blocks. *)
(***************************************************************************)
C6_DecliningHookIsNoHook ==
  (pc = "done" /\ mode \in {"hook", "parsers"} /\ AllDeclined) =>
     out = ParseEventsToBlocks(events)

\* a declining hook, three events, a BlockQuote reconstructed
C6_Witness ==
  /\ pc = "done"
  /\ mode = "hook"
  /\ AllDeclined
  /\ Len(calls) = 3
  /\ \E j \in 1..Len(out) : out[j].k = "BlockQuote" /\ out[j].children # <<>>

(***************************************************************************)
(* C7: in every call try_parse(events, idx, ctx) made by                   *)
(* parse_events_to_blocks_with_parsers, events[idx] is the event at the    *)
(* engine's cursor.                                                        *)
(***************************************************************************)
C7_ParserIndexNamesCurrentEvent ==
  mode = "parsers" =>
    \A k \in 1..Len(calls) :
      /\ calls[k].idx < Len(calls[k].evs)
      /\ calls[k].evs[calls[k].idx + 1] = events[calls[k].cursor + 1]

(***************************************************************************)
(* C8: for every tokenizer-produced event sequence, the events re-emitted  *)
(* by block_to_events from the reconstructed tree have the same canonical  *)
(* form as the input events.                                               *)
(***************************************************************************)
C8_EventRoundTrip ==
  pc \in {"reemitted", "rendered"} => Canon(reemitted) = Canon(events)

(***************************************************************************)
(* C9: the canonical events of the re-tokenized rendered text are those of *)
(* the input. The tokenizer is a function of the text, so two inputs that  *)
(* render to the same text have the same canonical events.                 *)
(***************************************************************************)
C9_RenderedTextDeterminesCanonicalEvents ==
  pc = "rendered" =>
    \A d \in Documents :
      blocks_to_markdown(ParseEventsToBlocks(d)) = md => Canon(d) = Canon(events)

(***************************************************************************)
(* C10: in the text of blocks_to_markdown every line of every root block   *)
(* is followed by a newline, and the lines of two consecutive root blocks  *)
(* are separated by exactly one blank line.                                *)
(***************************************************************************)
OneBlankLineBetween(blocks) ==
  Flatten([j \in 1..Len(blocks) |->
             (IF j > 1 THEN <<NL>> ELSE <<>>) \o BlockText(blocks[j])])

C10_OneBlankLineBetweenRootBlocks ==
  pc = "rendered" => md = OneBlankLineBetween(out)

(***************************************************************************)
(* C11: a fenced CodeBlock renders as an opening fence of n backticks and  *)
(* the language tag, the lines of the content unchanged, and a closing     *)
(* fence of n backticks, where n = max(3, 1 + the longest run of backticks *)
(* in the content): no run of n backticks occurs in the content.           *)
(***************************************************************************)
\* there is a run of m consecutive backticks in s
HasRun(s, m) ==
  \E j \in 1..(Len(s) - m + 1) : \A k \in j..(j + m - 1) : s[k] = Backtick

LongestRun(s) == CHOOSE m \in 0..Len(s) : HasRun(s, m) /\ ~HasRun(s, m + 1)

\* the text s as lines each ended by a newline
Terminated(s) == IF s = <<>> \/ Last(s) = NL THEN s ELSE Append(s, NL)

C11_FenceLongerThanEveryRun ==
  (Written("CodeBlock") /\ out[1].kind.c = "Fenced") =>
    LET ls == RegionStrs(region)
        content == RegionApply(out[1].content)
        n == Max(3, LongestRun(content) + 1)
        between == SubSeq(ls, 2, Len(ls) - 1)
    IN  /\ Len(ls) >= 2
        /\ ls[1] = Repeat(Backtick, n) \o out[1].kind.lang
        /\ Last(ls) = Repeat(Backtick, n)
        /\ ~HasRun(content, n)
        /\ Flatten([j \in 1..Len(between) |-> Append(between[j], NL)]) = Terminated(content)

\* content holding three backticks was fenced with four and the language tag
C11_Witness ==
  /\ Written("CodeBlock")
  /\ RegionApply(out[1].content) = <<Backtick, Backtick, Backtick, NL>>
  /\ RegionStrs(region) =
       << <<Backtick, Backtick, Backtick, Backtick, "r">>,
          <<Backtick, Backtick, Backtick>>,
          <<Backtick, Backtick, Backtick, Backtick>> >>

(***************************************************************************)
(* C12: in a rendered List the first line of item k (from 0) is the marker *)
(* followed by the first line of the item's content, the marker being      *)
(* "(start+k). " in an ordered list and "- " in an unordered one; every    *)
(* other line of the item is indented by as many spaces as the marker is   *)
(* wide; and one blank line follows each item.                             *)
(***************************************************************************)
\* the lines of an item's content: its children with consecutive paragraphs
\* merged, or one empty line when there are none and no nested list leads
ItemContent(item) ==
  LET body == RegionStrs(BlocksInner(MergeParagraphs(item, <<>>)))
  IN  IF body = <<>> /\ ~(item # <<>> /\ item[1].k = "List") THEN << <<>> >> ELSE body

ClaimedMarker(start, k) ==
  IF start.some THEN Decimal(start.v + k) \o <<".", " ">> ELSE <<"-", " ">>

ClaimedItemLines(start, k, item) ==
  LET body == ItemContent(item)
      marker == ClaimedMarker(start, k)
  IN  Append([j \in 1..Len(body) |->
                IF j = 1 THEN marker \o body[j]
                ELSE [n \in 1..Len(marker) |-> " "] \o body[j]],
             <<>>)

C12_ListMarkerAndIndent ==
  Written("List") =>
    RegionStrs(region) =
      Flatten([k \in 1..Len(out[1].items) |->
                 ClaimedItemLines(out[1].start, k - 1, out[1].items[k])])

\* an ordered list from 9: the second item's marker is "10. " and its second
\* line is indented by four spaces
C12_Witness ==
  /\ Written("List")
  /\ out[1].start = Some(9)
  /\ RegionStrs(region) =
       << <<"9", ".", " ", "a">>, <<>>,
          <<"1", "0", ".", " ", "a">>, <<" ", " ", " ", " ", "b">>, <<>> >>

(***************************************************************************)
(* C13: every line of a rendered BlockQuote begins with "> ", the blank    *)
(* separators between its children and the reference-definition lines of   *)
(* its children included, at every depth; and a BlockQuote whose children  *)
(* render to no lines renders as an empty region.                          *)
(***************************************************************************)
BeginsWith(s, p) == Len(s) >= Len(p) /\ SubSeq(s, 1, Len(p)) = p

QuoteLinesPrefixed ==
  Written("BlockQuote") =>
    \A j \in 1..Len(RegionStrs(region)) : BeginsWith(RegionStrs(region)[j], <<">", " ">>)

ChildrenRenderNoLines(children) ==
  \A j \in 1..Len(children) : RegionStrs(block_to_region(children[j])) = <<>>

C13_BlockQuotePrefixesEveryLine ==
  /\ QuoteLinesPrefixed
  /\ (Written("BlockQuote") /\ ChildrenRenderNoLines(out[1].children))
       => RegionIsEmpty(region)

(***************************************************************************)
(* C14: the first line of a rendered FootnoteDefinition is "[^id]: "       *)
(* immediately followed by the first line of the children's rendering,     *)
(* nothing inserted between the marker and the text; every later line is   *)
(* the children's line indented by exactly four spaces.                    *)
(***************************************************************************)
C14_FootnoteFirstLineNotIndented ==
  Written("FootnoteDefinition") =>
    LET body == RegionStrs(BlocksInner(out[1].children))
        ls == RegionStrs(region)
    IN  /\ Len(ls) = Len(body)
        /\ \A j \in 1..Len(body) :
             ls[j] = IF j = 1
                     THEN <<"[", "^">> \o out[1].label \o <<"]", ":", " ">> \o body[1]
                     ELSE <<" ", " ", " ", " ">> \o body[j]

\* the lines after the first are the children's lines indented by four spaces
FootnoteLaterLinesIndented ==
  Written("FootnoteDefinition") =>
    LET body == RegionStrs(BlocksInner(out[1].children))
        ls == RegionStrs(region)
    IN  /\ Len(ls) = Len(body)
        /\ \A j \in 2..Len(body) : ls[j] = <<" ", " ", " ", " ">> \o body[j]

(***************************************************************************)
(* C15: in a rendered TableFull with single-line cells the number of       *)
(* columns is max(number of alignments, length of the longest row); the    *)
(* width of a column is the greatest display width of its cell texts, the  *)
(* header included and a missing cell counted as empty; and in the header  *)
(* row, the separator row and every body row the cell of each column has   *)
(* display width exactly the width of its column.                          *)
(***************************************************************************)
ClaimedCols(t) == Max(Len(t.aligns), MaxOfSeq([ri \in 1..Len(t.rows) |-> Len(t.rows[ri])]))

\* the text of the cell of row ri in column c, empty when the row is shorter
CellText(t, ri, c) ==
  IF c <= Len(t.rows[ri]) THEN LineApply(AppendChildren(LineNew, t.rows[ri][c])) ELSE <<>>

ClaimedWidth(t, c) == MaxOfSeq([ri \in 1..Len(t.rows) |-> Width(CellText(t, ri, c))])

\* the fragment a rendered table line holds for column c: cells and " | "
\* alternate
CellOf(line, c) == line[2 * c - 1]

TableShape ==
  (Written("TableFull") /\ out[1].rows # <<>>) =>
    LET ls == RegionIntoLines(region)
    IN  /\ Len(ls) = Len(out[1].rows) + 1
        /\ \A j \in 1..Len(ls) :
             /\ Len(ls[j]) = Max(2 * ClaimedCols(out[1]) - 1, 0)
             /\ \A c \in 2..ClaimedCols(out[1]) : ls[j][2 * c - 2] = <<" ", "|", " ">>

\* the header and body cells have the width of their column
TableTextCellsHaveColumnWidth ==
  (Written("TableFull") /\ out[1].rows # <<>>) =>
    LET ls == RegionIntoLines(region)
    IN  \A j \in (1..Len(ls)) \ {2} : \A c \in 1..ClaimedCols(out[1]) :
          Width(CellOf(ls[j], c)) = ClaimedWidth(out[1], c)

C15_TableCellsHaveColumnWidth ==
  /\ TableShape
  /\ (Written("TableFull") /\ out[1].rows # <<>>) =>
       LET ls == RegionIntoLines(region)
       IN  \A j \in 1..Len(ls) : \A c \in 1..ClaimedCols(out[1]) :
             Width(CellOf(ls[j], c)) = ClaimedWidth(out[1], c)

(***************************************************************************)
(* C16: a TableFull with alignments [Left, Right], header cells A, B and   *)
(* one body row 1, 22 renders with column widths 2 and 2, the separator    *)
(* row :--|--: and the header and body cells padded to those widths.       *)
(***************************************************************************)
C16_LeftRightTableExample ==
  (Written("TableFull") /\ out[1] = LeftRightTable) =>
    LET ls == RegionIntoLines(region)
    IN  /\ Len(ls) = 3
        /\ \A j \in 1..3 : \A c \in 1..2 : Width(CellOf(ls[j], c)) = 2
        /\ LineApply(ls[2]) = <<":", "-", "-", "|", "-", "-", ":">>

(***************************************************************************)
(* C17: in a rendered Paragraph the reference-style links and images       *)
(* (Reference, Collapsed or Shortcut with a non-empty id) that share an id *)
(* produce exactly one definition line, [id]: dest or [id]: dest "title",  *)
(* with the dest and title of the first occurrence in source order; the    *)
(* definition lines are suffix lines, after the main lines and one blank   *)
(* separator line.                                                         *)
(***************************************************************************)
IsRefForm(inl) ==
  /\ inl.k \in {"Link", "Image"}
  /\ inl.link_type \in {"Reference", "Collapsed", "Shortcut"}
  /\ inl.id # <<>>

HasChildren(inl) == inl.k \in SpanTags \cup {"Link", "Image"}

\* the reference-style links and images among the inlines themselves
DirectRefs(inls) == SelectSeq(inls, IsRefForm)

\* the reference-style links and images of the inlines in source order, the
\* nested ones included
RECURSIVE RefsOf(_)
RefsOf(inls) ==
  Flatten([j \in 1..Len(inls) |->
             (IF IsRefForm(inls[j]) THEN <<inls[j]>> ELSE <<>>)
               \o (IF HasChildren(inls[j]) THEN RefsOf(inls[j].children) ELSE <<>>)])

\* the first occurrence of every id, in order
RECURSIVE FirstOfEachId(_, _)
FirstOfEachId(refs, seen) ==
  IF refs = <<>> THEN <<>>
  ELSE IF Head(refs).id \in seen THEN FirstOfEachId(Tail(refs), seen)
  ELSE <<Head(refs)>> \o FirstOfEachId(Tail(refs), seen \cup {Head(refs).id})

ClaimedDefLine(ref) ==
  <<"[">> \o ref.id \o <<"]", ":", " ">> \o ref.dest
    \o (IF ref.title = <<>> THEN <<>> ELSE <<" ", DQuote>> \o ref.title \o <<DQuote>>)

\* the region is main lines, then (if there is a definition) one blank main
\* line, then the definition lines of refs as suffix lines
DefinitionsAre(refs) ==
  LET firsts == FirstOfEachId(refs, {})
  IN  /\ [j \in 1..Len(region.suffix) |-> LineApply(region.suffix[j])]
           = [j \in 1..Len(firsts) |-> ClaimedDefLine(firsts[j])]
      /\ firsts # <<>> =>
           /\ Len(region.lines) >= 2
           /\ LineApply(Last(region.lines)) = <<>>
           /\ LineApply(region.lines[Len(region.lines) - 1]) # <<>>

C17_OneDefinitionPerSharedId ==
  Written("Paragraph") => DefinitionsAre(RefsOf(out[1].inl))

\* the same, of the links and images that are inlines of the paragraph itself
ParagraphDefinesDirectRefs ==
  Written("Paragraph") => DefinitionsAre(DirectRefs(out[1].inl))

(***************************************************************************)
(* C18: every link or image rendered in reference form has a definition    *)
(* line for its id in the same rendered block, wherever it occurs:         *)
(* directly in a Paragraph, nested in Emphasis, Strong or Strikethrough or *)
(* in the text of another link, in a Heading, or in a table cell.          *)
(***************************************************************************)
InlinesOf(b) ==
  CASE b.k = "Paragraph" -> b.inl
    [] b.k = "Heading" -> b.children
    [] b.k = "TableFull" ->
         Flatten([ri \in 1..Len(b.rows) |-> Flatten(b.rows[ri])])
    [] OTHER -> <<>>

HasDefinitionLine(id) ==
  \E j \in 1..Len(region.suffix) :
    BeginsWith(LineApply(region.suffix[j]), <<"[">> \o id \o <<"]", ":", " ">>)

C18_EveryReferenceHasDefinition ==
  pc = "written" =>
    \A j \in 1..Len(RefsOf(InlinesOf(out[1]))) :
      HasDefinitionLine(RefsOf(InlinesOf(out[1]))[j].id)

(***************************************************************************)
(* C19: a link or an image rendered in inline form, [text](dest),          *)
(* [text](dest "title"), ![text](dest) or ![text](dest "title"), has every *)
(* backslash and parenthesis of dest and every backslash and double quote  *)
(* of title escaped with a backslash; links and images alike.              *)
(***************************************************************************)
Escaped(s, chars) ==
  Flatten([j \in 1..Len(s) |-> IF s[j] \in chars THEN <<BackSlash, s[j]>> ELSE <<s[j]>>])

ClaimedInlineForm(inl) ==
  (IF inl.k = "Image" THEN <<"!">> ELSE <<>>)
    \o <<"[">> \o LinkInner(inl.children) \o <<"]", "(">>
    \o Escaped(inl.dest, {BackSlash, "(", ")"})
    \o (IF inl.title = <<>> THEN <<>>
        ELSE <<" ", DQuote>> \o Escaped(inl.title, {BackSlash, DQuote}) \o <<DQuote>>)
    \o <<")">>

\* the paragraph holds one inline, of kind k, in inline form
AloneInline(kinds) ==
  /\ Written("Paragraph")
  /\ Len(out[1].inl) = 1
  /\ out[1].inl[1].k \in kinds
  /\ out[1].inl[1].link_type = "Inline"

C19_InlineFormEscapesDestAndTitle ==
  AloneInline({"Link", "Image"}) =>
    RegionStrs(region) = <<ClaimedInlineForm(out[1].inl[1])>>

InlineLinkEscapesDestAndTitle ==
  AloneInline({"Link"}) => RegionStrs(region) = <<ClaimedInlineForm(out[1].inl[1])>>

(***************************************************************************)
(* C20: when a Custom block supplies a direct region the writer's output   *)
(* for the block is exactly the lines of that region, and when a Custom    *)
(* inline supplies a direct line the output is exactly that line; the      *)
(* flattening of to_events() is used only when none is supplied.           *)
(***************************************************************************)
C20_CustomUsesDirectRendering ==
  /\ Written("Custom") => RegionStrs(region) = RegionStrs(BlockNodeToRegion(out[1].name))
  /\ (Written("Paragraph") /\ Len(out[1].inl) = 1 /\ out[1].inl[1].k = "Custom")
       => RegionStrs(region) = <<LineApply(InlineNodeToLine(out[1].inl[1].name))>>

(***************************************************************************)
(* C21: every Region transform treats the main lines followed by the       *)
(* suffix lines as one line sequence: prefix_each_line(p),                 *)
(* indent_each_line(n) or prefix_first_then_indent_rest(p) followed by     *)
(* into_lines() gives the lines that the transform gives when the suffix   *)
(* lines are first moved to the end of the main lines; so with no main     *)
(* line the first suffix line receives p alone and every later suffix line *)
(* len(p) spaces.                                                          *)
(***************************************************************************)
LineStrs(ls) == [j \in 1..Len(ls) |-> LineApply(ls[j])]

Spaces(n) == [j \in 1..n |-> " "]

\* the transform named by o, on a plain sequence of line texts
ClaimedTransform(o, ss) ==
  CASE o.name = "prefix_each_line" -> [j \in 1..Len(ss) |-> o.p \o ss[j]]
    [] o.name = "indent_each_line" -> [j \in 1..Len(ss) |-> Spaces(o.n) \o ss[j]]
    [] o.name = "prefix_first_then_indent_rest" ->
         [j \in 1..Len(ss) |-> IF j = 1 THEN o.p \o ss[j] ELSE Spaces(Len(o.p)) \o ss[j]]

TransformNames == {"prefix_each_line", "indent_each_line", "prefix_first_then_indent_rest"}

TransformIsUniform(names) ==
  op'.name \in names =>
    LineStrs(RegionIntoLines(region')) = ClaimedTransform(op', LineStrs(RegionIntoLines(region)))

C21_TransformsTreatSuffixAsLines == [][TransformIsUniform(TransformNames)]_vars

\* prefix_first_then_indent_rest on a region that has a main line
FirstThenRestIsUniformAfterMainLine ==
  [][region.lines # <<>> => TransformIsUniform({"prefix_first_then_indent_rest"})]_vars

\* the two transforms that treat every line alike
PrefixAndIndentAreUniform ==
  [][TransformIsUniform({"prefix_each_line", "indent_each_line"})]_vars

(***************************************************************************)
(* C28: after any sequence of push_front_line, push_back_line,             *)
(* push_back_suffix_line and transform calls on a Region, apply() and      *)
(* into_lines() give all main lines in list order followed by all suffix   *)
(* lines in insertion order: a suffix line never precedes a main line,     *)
(* whatever the order of the pushes, and is_empty() is true exactly when   *)
(* both groups are empty.                                                  *)
(***************************************************************************)
EndsWith(s, t) == Len(s) >= Len(t) /\ SubSeq(s, Len(s) - Len(t) + 1, Len(s)) = t

\* what into_lines() gives after the call op', from the main and suffix lines
\* before it
OrderKeptByCall ==
  LET main == LineStrs(region.lines)
      suff == LineStrs(region.suffix)
      after == LineStrs(RegionIntoLines(region'))
      pushed == LineApply(op'.line)
  IN  /\ CASE op'.name = "push_front_line" -> after = <<pushed>> \o main \o suff
            [] op'.name = "push_back_line" -> after = main \o <<pushed>> \o suff
            [] op'.name = "push_back_suffix_line" -> after = main \o suff \o <<pushed>>
            [] OTHER ->
                 /\ Len(after) = Len(main) + Len(suff)
                 /\ \A j \in 1..Len(after) : EndsWith(after[j], (main \o suff)[j])
      /\ RegionApply(region') = Join(after, <<NL>>)
      /\ RegionIsEmpty(region') <=> (after = <<>>)

C28_SuffixLinesFollowMainLines == [][OrderKeptByCall]_vars

\* a main line pushed after a suffix line still comes out first
C28_Witness ==
  /\ op.name = "push_back_line"
  /\ op.line = LineFromStr(<<"a">>)
  /\ region.suffix = <<LineFromStr(<<"b">>)>>
  /\ RegionApply(region) = <<"a", NL, "b">>
  /\ LineStrs(RegionIntoLines(region)) = << <<"a">>, <<"b">> >>

(***************************************************************************)
(* C29: in every rendered TableFull with at least one row the separator    *)
(* cell of each column holds at least one "-", for every alignment (Left,  *)
(* Right, Center, None or undeclared) and every column width, the widths   *)
(* 0, 1 and 2 included.                                                    *)
(***************************************************************************)
C29_SeparatorCellsHoldADash ==
  (Written("TableFull") /\ out[1].rows # <<>>) =>
    \A c \in 1..ClaimedCols(out[1]) : Contains(CellOf(RegionIntoLines(region)[2], c), "-")

\* the colons the separator cell of column c carries
Colons(t, c) ==
  IF c > Len(t.aligns) THEN 0
  ELSE IF t.aligns[c] \in {"Left", "Right"} THEN 1
  ELSE IF t.aligns[c] = "Center" THEN 2
  ELSE 0

\* the separator cells of the columns wider than their colons
RoomySeparatorCellsHoldADash ==
  (Written("TableFull") /\ out[1].rows # <<>>) =>
    \A c \in 1..ClaimedCols(out[1]) :
      ClaimedWidth(out[1], c) > Colons(out[1], c)
        => Contains(CellOf(RegionIntoLines(region)[2], c), "-")

(***************************************************************************)
(* C30: render_list emits exactly one marker-prefixed line per item, in    *)
(* item order, whatever the children of the item are (none, blocks that    *)
(* render to no lines, a nested list as first child, a nested list with no *)
(* items): an ordered list of n items shows each of start..start+n-1 once. *)
(***************************************************************************)
\* the lines of the region that begin with the marker of item k
MarkerLines(k) ==
  {j \in 1..Len(RegionStrs(region)) :
     BeginsWith(RegionStrs(region)[j], ClaimedMarker(out[1].start, k))}

C30_OneMarkerLinePerItem ==
  Written("List") =>
    /\ \A k \in 1..Len(out[1].items) : MarkerLines(k - 1) # {}
    /\ out[1].start.some =>
         /\ \A k \in 1..Len(out[1].items) : Cardinality(MarkerLines(k - 1)) = 1
         /\ \A k \in 1..(Len(out[1].items) - 1) :
              \A a \in MarkerLines(k - 1) : \A b \in MarkerLines(k) : a < b

\* the same, of the lists in which no item begins with a nested list
FirstIsList(item) == item # <<>> /\ item[1].k = "List"

ItemsNotLedByListHaveMarker ==
  Written("List") =>
    \A k \in 1..Len(out[1].items) :
      ~FirstIsList(out[1].items[k]) => MarkerLines(k - 1) # {}

(***************************************************************************)
(* C25: for every finite event sequence and every hook the cursor strictly *)
(* increases on each loop iteration, so the loop ends after at most        *)
(* len(events) iterations; a hook that answers Some with consumed = 0, or  *)
(* with consumed larger than the number of remaining events, included.     *)
(***************************************************************************)
\* a step of the loop: one iteration
Iteration == pc = "run" /\ pc' = "run"

Iterations == Len(structural) + hits

C25_CursorStrictlyIncreases ==
  [][Iteration => (i' > i /\ Len(structural') + hits' <= Len(events))]_vars

\* the last call of the iteration answered Some((0, _))
AnsweredZero ==
  /\ calls' # calls
  /\ Last(calls').ret.some
  /\ Last(calls').ret.v.consumed = 0

\* every iteration but the one a hook ends with consumed = 0 advances the cursor
CursorIncreasesUnlessAnsweredZero ==
  [][Iteration => (i' > i \/ AnsweredZero)]_vars

(***************************************************************************)
(* C22: on End of a List frame the resulting List has exactly one item per *)
(* child block of the frame, in source order: a child Item contributes its *)
(* block sequence unwrapped, any other child becomes a singleton item, and *)
(* the ordered-start value of the Start tag is carried unchanged.          *)
(***************************************************************************)
\* the step that processes an End event while a frame is open
EndStep ==
  /\ pc = "run" /\ i < Len(events) /\ i' = i + 1
  /\ events[i + 1].k = "End"
  /\ stack # <<>>

\* the block the step attached: the last block of the parent frame, or of the
\* root sequence when there is no parent
ClosedBlock == IF Len(stack) > 1 THEN Last(stack'[Len(stack')].blocks) ELSE Last(out')

ListClosedAsClaimed ==
  (EndStep /\ Last(stack).tag.t = "List") =>
    LET children == Last(stack).blocks
        node == ClosedBlock
    IN  /\ node.k = "List"
        /\ node.start = Last(stack).tag.start
        /\ Len(node.items) = Len(children)
        /\ \A j \in 1..Len(children) :
             node.items[j] = IF children[j].k = "Item" THEN children[j].children
                             ELSE <<children[j]>>

C22_ListHasOneItemPerChild == [][ListClosedAsClaimed]_vars

\* an ordered list from 3 whose frame held a loose item and a rule
C22_Witness ==
  /\ pc = "done"
  /\ events = ListEv(Some(3), ItemEv(Para(<<Txt>>) \o <<EvRule>>) \o <<EvRule>>)
  /\ out = <<BlkList(Some(3), << <<P(TxtA), BlkRule>>, <<BlkRule>> >>)>>

(***************************************************************************)
(* C23: reconstructing a well-nested Table(alignments) subtree (TableHead  *)
(* and TableRow frames that hold TableCell frames) yields one              *)
(* TableFull(alignments, rows) in which rows[0] holds the cells of the     *)
(* TableHead and rows[k] those of the k-th TableRow, in source order, each *)
(* cell being the inline sequence collected between its TableCell Start    *)
(* and End: empty cells included, spans kept inside their own cell.        *)
(***************************************************************************)
\* the inlines the events of a cell stand for
InlinesOfCell(evs) == (CHOOSE c \in CellDescs : c.evs = evs).inls

\* the rows of a table read off its events: a row per TableHead or TableRow
\* Start, a cell per TableCell Start, holding what lies before its End
RECURSIVE TableScan(_, _, _, _)
TableScan(evs, rows, cell, inCell) ==
  IF evs = <<>> THEN rows
  ELSE LET e == Head(evs)
       IN  IF e.k = "Start" /\ e.tag.t \in {"TableHead", "TableRow"}
           THEN TableScan(Tail(evs), Append(rows, <<>>), <<>>, FALSE)
           ELSE IF e.k = "Start" /\ e.tag.t = "TableCell"
           THEN TableScan(Tail(evs), rows, <<>>, TRUE)
           ELSE IF e.k = "End" /\ e.tagend.t = "TableCell"
           THEN TableScan(Tail(evs),
                          [rows EXCEPT ![Len(rows)] = Append(@, InlinesOfCell(cell))],
                          <<>>, FALSE)
           ELSE IF inCell THEN TableScan(Tail(evs), rows, Append(cell, e), TRUE)
           ELSE TableScan(Tail(evs), rows, cell, FALSE)

IsStartOf(ev, t) == ev.k = "Start" /\ ev.tag.t = t

ClaimedTable(evs) == BlkTableFull(evs[1].tag.aligns, TableScan(evs, <<>>, <<>>, FALSE))

C23_TableReconstructed ==
  (pc = "done" /\ events # <<>>) =>
    /\ IsStartOf(events[1], "Table") => out = <<ClaimedTable(events)>>
    /\ (IsStartOf(events[1], "BlockQuote") /\ Len(events) > 1 /\ IsStartOf(events[2], "Table"))
         => out = <<BlkBlockQuote(<<ClaimedTable(Tail(events))>>)>>

\* a header of two cells, the second empty, and two body rows: one with no cell,
\* one with a span and a code span in its first cell
C23_Witness ==
  /\ pc = "done"
  /\ events \in TableDocs
  /\ out = <<BlkTableFull(<<"Left", "None">>,
               << << <<TextOf(TxtA)>>, <<>> >>,
                  <<>>,
                  << <<InlSpan("Emphasis", <<TextOf(TxtA)>>), InlCode(RegionFromStr(<<"b">>))>>,
                     <<TextOf(TxtA)>> >> >>)>>

(***************************************************************************)
(* C24: when an End closes a span-level frame (Emphasis, Strong,           *)
(* Strikethrough, Subscript, Superscript, Link, Image) the resulting       *)
(* Inline is appended to the parent frame's inline buffer if the parent    *)
(* collects inlines; otherwise it is appended into the parent's last block *)
(* when that block is a Paragraph, else a new singleton Paragraph is       *)
(* pushed to the parent's blocks; with no parent it is pushed to the root  *)
(* sequence wrapped in a new singleton Paragraph.  No empty placeholder    *)
(* Paragraph is ever emitted for a span-level frame.                       *)
(***************************************************************************)
SpanLevel == SpanTags \cup {"Link", "Image"}

\* the Inline of a span-level frame, field by field
IsInlineOf(x, frame) ==
  /\ x.k = frame.tag.t
  /\ x.children = frame.inlines
  /\ frame.tag.t \in {"Link", "Image"} =>
       /\ x.link_type = frame.tag.link_type
       /\ x.dest = frame.tag.dest_url
       /\ x.title = frame.tag.title
       /\ x.id = frame.tag.id
  /\ DOMAIN x = IF frame.tag.t \in {"Link", "Image"}
                THEN {"k", "link_type", "dest", "title", "id", "children"}
                ELSE {"k", "children"}

\* s is t with one more element at its end, and that element satisfies IsInlineOf
GrewByInlineOf(s, t, frame) ==
  Len(s) = Len(t) + 1 /\ Front(s) = t /\ IsInlineOf(Last(s), frame)

SpanClosedAsClaimed ==
  (EndStep /\ Last(stack).tag.t \in SpanLevel) =>
    LET frame == Last(stack)
        rest == Front(stack)
    IN  IF rest = <<>>
        THEN /\ stack' = <<>>
             /\ Len(out') = Len(out) + 1 /\ Front(out') = out
             /\ Last(out').k = "Paragraph"
             /\ Len(Last(out').inl) = 1 /\ IsInlineOf(Last(out').inl[1], frame)
        ELSE LET parent == Last(rest)
                 after == Last(stack')
             IN  /\ out' = out
                 /\ Len(stack') = Len(rest) /\ Front(stack') = Front(rest)
                 /\ after.tag = parent.tag /\ after.collect_inlines = parent.collect_inlines
                 /\ IF parent.collect_inlines
                    THEN /\ GrewByInlineOf(after.inlines, parent.inlines, frame)
                         /\ after.blocks = parent.blocks
                    ELSE /\ after.inlines = parent.inlines
                         /\ IF parent.blocks # <<>> /\ Last(parent.blocks).k = "Paragraph"
                            THEN /\ Len(after.blocks) = Len(parent.blocks)
                                 /\ Front(after.blocks) = Front(parent.blocks)
                                 /\ Last(after.blocks).k = "Paragraph"
                                 /\ GrewByInlineOf(Last(after.blocks).inl,
                                                   Last(parent.blocks).inl, frame)
                            ELSE /\ Len(after.blocks) = Len(parent.blocks) + 1
                                 /\ Front(after.blocks) = parent.blocks
                                 /\ Last(after.blocks).k = "Paragraph"
                                 /\ Len(Last(after.blocks).inl) = 1
                                 /\ IsInlineOf(Last(after.blocks).inl[1], frame)

C24_SpanInlineAttachedToParent == [][SpanClosedAsClaimed]_vars

\* a link closed in a block quote after a rule: a new singleton Paragraph
C24_Witness ==
  /\ pc = "done"
  /\ events = QuoteEv(<<EvRule>> \o SpanEv(TagLink("Link", "Inline", <<"u">>, <<"t">>, <<>>), <<Txt>>))
  /\ out = <<BlkBlockQuote(<<BlkRule,
               BlkParagraph(<<[k |-> "Link", link_type |-> "Inline", dest |-> <<"u">>,
                               title |-> <<"t">>, id |-> <<>>,
                               children |-> <<TextOf(TxtA)>>]>>)>>)>>

(***************************************************************************)
(* C26: when the input ends while frames are still open (Start events      *)
(* never closed), the returned root sequence contains nothing from those   *)
(* frames: no node for an open frame and none of the inlines or blocks     *)
(* buffered in it; the result is exactly the root sequence accumulated     *)
(* before the end of input.                                                *)
(***************************************************************************)
\* the positions of the Start events no End has closed, outermost first: a
\* Start opens, an End closes the innermost open one
RECURSIVE OpenStarts(_, _, _)
OpenStarts(evs, k, open) ==
  IF k > Len(evs) THEN open
  ELSE IF evs[k].k = "Start" THEN OpenStarts(evs, k + 1, Append(open, k))
  ELSE IF evs[k].k = "End" /\ open # <<>> THEN OpenStarts(evs, k + 1, Front(open))
  ELSE OpenStarts(evs, k + 1, open)

EndsOpen(evs) == OpenStarts(evs, 1, <<>>) # <<>>

\* the events before the outermost Start that is never closed
BeforeOpen(evs) == SubSeq(evs, 1, OpenStarts(evs, 1, <<>>)[1] - 1)

C26_OpenFramesAreDropped ==
  (pc = "done" /\ EndsOpen(events)) =>
    /\ out = ParseEventsToBlocks(BeforeOpen(events))
    /\ Len(stack) = Len(OpenStarts(events, 1, <<>>))

\* a paragraph, then a block quote left open with a paragraph and a text in it
C26_Witness ==
  /\ pc = "done"
  /\ events = Para(<<Txt>>) \o <<EvStart(TagBlockQuote(None)), EvStart(TagPlain("Paragraph")), Txt>>
  /\ Len(stack) = 2
  /\ stack[2].inlines = <<TextOf(TxtA)>>
  /\ out = <<P(TxtA)>>

(***************************************************************************)
(* C27: an End event processed structurally always pops the innermost open *)
(* frame, and the kind of node produced is determined only by that frame's *)
(* Start tag; the End event's own tag kind is never compared with it, so   *)
(* an End of a different kind closes the innermost frame exactly as a      *)
(* matching End would.                                                     *)
(***************************************************************************)
\* the End event that matches a Start tag
MatchingEnd(tag) ==
  CASE tag.t = "Heading" -> EvEnd(TagEndHeading(tag.level))
    [] tag.t = "BlockQuote" -> EvEnd(TagEndBlockQuote(tag.kind))
    [] tag.t = "List" -> EvEnd(TagEndList(tag.start.some))
    [] OTHER -> EvEnd(TagPlain(tag.t))

\* the kind of the block a frame closed at the root leaves there
RootKindOf(t) ==
  CASE t \in {"Heading", "BlockQuote", "CodeBlock", "HtmlBlock", "List", "Item",
              "FootnoteDefinition"} -> t
    [] t = "Table" -> "TableFull"
    [] t \in {"TableHead", "TableRow"} -> "TableRow"
    [] OTHER -> "Paragraph"

EndClosesInnermost ==
  EndStep =>
    LET frame == Last(stack)
        asMatching == Structural(MatchingEnd(frame.tag), stack, out)
    IN  /\ Len(stack') = Len(stack) - 1
        /\ Len(stack) > 1 => Front(stack') = Front(Front(stack))
        /\ stack' = asMatching.stack
        /\ out' = asMatching.out
        /\ Len(stack) = 1 =>
             /\ Len(out') = Len(out) + 1
             /\ Last(out').k = RootKindOf(frame.tag.t)
             /\ frame.tag.t \in SpanLevel => Last(out').inl[1].k = frame.tag.t

C27_EndKindIsNeverCompared == [][EndClosesInnermost]_vars

\* an ordered list holding a paragraph, closed by the End of a table cell
C27_Witness ==
  /\ pc = "done"
  /\ events = <<EvStart(TagList(Some(1)))>> \o Para(<<Txt>>) \o <<EvEnd(TagPlain("TableCell"))>>
  /\ stack = <<>>
  /\ out = <<BlkList(Some(1), << <<P(TxtA)>> >>)>>

=============================================================================
